---------------------------- MODULE Spec2Model ----------------------------
(***************************************************************************)
(* Model of the hedging plugin's rebalancing engine                        *)
(* (src/hedging-plugin/src/HedgingPlugin.ts) and of the OKX client it      *)
(* drives (src/unnamed/part_000, lines 369-796).                           *)
(*                                                                         *)
(* JavaScript is run-to-completion: a handler runs without interruption    *)
(* from one await to the next.  Every process (the periodic checker of     *)
(* runSwapStateChecker, the setInterval callbacks of the balance monitor)  *)
(* is a program counter pc[p], a stack stk[p] of suspended callers and the *)
(* locals loc[p] of the running frame.  `run` names the process that is    *)
(* executing synchronous code; every other action waits for run = NoProc.  *)
(*                                                                         *)
(* Time: one unit is 5000 ms.  The document stores cooldown and retryAt as *)
(* wall-clock instants; the model stores their distance to Date.now()      *)
(* (cooldown - now clipped at 0, retryAt - now clipped at -1), and Tick    *)
(* lets one unit of time pass.                                             *)
(***************************************************************************)
EXTENDS Integers, Sequences, FiniteSets, TLC

\* ------------------------------------------------------------------ bounds
\* Number of objects created outside the process (transactions, invoices,
\* CEX orders / transfers / withdrawals) in one behaviour.
MaxExt == 8
\* Number of jobs the balance monitor seeds in one behaviour.
MaxJobs == 2
\* Number of process crashes (followed by a restart) in one behaviour.
MaxCrashes == 1
\* Number of failures (a call that throws, a payment / order / transfer /
\* withdrawal / transaction that fails) in one behaviour.
MaxFaults == 1
\* Largest number of transactions one txsWithdraw/txsTransfer/txsDeposit returns.
MaxBatch == 1
\* Number of transactions the smart-chain library replaces in one behaviour.
MaxReplace == 1
\* Number of timer firings in a behaviour of SpecOverlap.
MaxFires == 2

\* ------------------------------------------------------- program constants
\* Largest of the small amounts converted to and from decimal text.
MaxAmount == 20

\* retryTime = 15*1000 ms, in units of 5000 ms
retryTime == 3
\* the cooldown "Date.now()+(5*1000)" set before every broadcast / submission
cooldownTime == 1

\* ------------------------------------------------------------- the document
\* A field of HedgingPluginState is <<>> when absent (undefined / null) and
\* <<v>> when it holds v.  `state` is a string; "null" is {state: null} and
\* "undefined" is a plugin whose this.state was never assigned.
None == <<>>
Some(v) == <<v>>

RebalancingState ==
    [RETRYING |-> -1, IDLE |-> 0, TRIGGERED |-> 1, SC_WITHDRAWING |-> 2,
     SC_WITHDRAWAL_CONFIRMED |-> 3, OUT_TX |-> 4, OUT_TX_CONFIRMED |-> 5,
     DEPOSIT_RECEIVED |-> 6, TRADE_EXECUTING |-> 7, TRADE_EXECUTED |-> 8,
     FUNDS_TRANSFERING |-> 9, FUNDS_TRANSFERED |-> 10, WITHDRAWING |-> 11,
     WITHDRAWAL_SENT |-> 12, IN_TX_CONFIRMED |-> 13, SC_DEPOSITING |-> 14,
     SC_DEPOSITED |-> 15, FINISHED |-> 16]

States == DOMAIN RebalancingState

REQUIRED_FIELDS ==
    [RETRYING |-> {"retryAt", "retryState"},
     IDLE |-> {},
     TRIGGERED |-> {"srcToken", "srcTokenAddress", "dstToken", "dstTokenAddress", "amountOut"},
     SC_WITHDRAWING |-> {"scWithdrawTxs"},
     SC_WITHDRAWAL_CONFIRMED |-> {"scWithdrawTxId"},
     OUT_TX |-> {"outTxs"},
     OUT_TX_CONFIRMED |-> {"outTxId"},
     DEPOSIT_RECEIVED |-> {"depositId"},
     TRADE_EXECUTING |-> {"clientOrderId"},
     TRADE_EXECUTED |-> {"orderId", "price", "amountIn"},
     FUNDS_TRANSFERING |-> {"clientTransferId"},
     FUNDS_TRANSFERED |-> {"transferId"},
     WITHDRAWING |-> {"receivingAddress", "withdrawalFee", "withdrawalId"},
     WITHDRAWAL_SENT |-> {"inTxId"},
     IN_TX_CONFIRMED |-> {},
     SC_DEPOSITING |-> {"scDepositTxs"},
     SC_DEPOSITED |-> {"scDepositTxId"},
     FINISHED |-> {}]

\* The three fields the JSON replacer / reviver treat as big integers.
BNFields == {"amountOut", "amountIn", "withdrawalFee"}

\* {state: null}: the object the monitor and the FINISHED handler assign.
\* `job` is bookkeeping, not a field of the program: the number of the job the
\* object was created for (0: none).
NullState ==
    [state |-> "null", job |-> 0, cooldown |-> None, retryAt |-> None, retryState |-> None,
     srcToken |-> None, srcTokenAddress |-> None, dstToken |-> None,
     dstTokenAddress |-> None, amountOut |-> None,
     scWithdrawTxs |-> None, scWithdrawTxId |-> None, outTxs |-> None, outTxId |-> None,
     depositId |-> None, clientOrderId |-> None, orderId |-> None, price |-> None,
     amountIn |-> None, clientTransferId |-> None, transferId |-> None,
     receivingAddress |-> None, withdrawalFee |-> None, withdrawalId |-> None,
     inTxId |-> None, scDepositTxs |-> None, scDepositTxId |-> None]

\* this.state before loadState found a document or the monitor seeded a job.
Undefined == [NullState EXCEPT !.state = "undefined"]

\* No file at storage/hedge-plugin-state.json.
NoFile == [NullState EXCEPT !.state = "nofile"]

Has(s, f) == s[f] # None

\* ------------------------------------------------------------ big integers
\* BN.prototype.toString(base): the digits of x, most significant first
\* (a digit is its value, 0..base-1).
RECURSIVE BNtoString(_, _)
BNtoString(x, base) ==
    IF x < base THEN <<x>> ELSE Append(BNtoString(x \div base, base), x % base)

\* new BN(text, base)
RECURSIVE BNparse(_, _)
BNparse(text, base) ==
    IF Len(text) = 0 THEN 0
    ELSE BNparse(SubSeq(text, 1, Len(text) - 1), base) * base + text[Len(text)]

\* ----------------------------------------------------------- decimal text
\* A text is the sequence of its characters.
Digits == <<"0", "1", "2", "3", "4", "5", "6", "7", "8", "9">>

\* amount.toString(10) as text ("-" and the digits of -x for a negative x)
DecimalString(x) ==
    LET text(n) == [i \in DOMAIN BNtoString(n, 10) |-> Digits[BNtoString(n, 10)[i] + 1]]
    IN IF x < 0 THEN <<"-">> \o text(-x) ELSE text(x)

\* new BN(text): the number a string of decimal digits denotes ("" is 0).
BN(text) ==
    BNparse([i \in DOMAIN text |-> CHOOSE n \in 0..9 : Digits[n + 1] = text[i]], 10)

\* String.prototype.repeat, padStart, padEnd, substring, includes, split
repeat(c, n) == [i \in 1..n |-> c]

padStart(text, n, c) == IF Len(text) >= n THEN text ELSE repeat(c, n - Len(text)) \o text

padEnd(text, n, c) == IF Len(text) >= n THEN text ELSE text \o repeat(c, n - Len(text))

substring(text, from, to) ==
    LET Clamp(i) == IF i < 0 THEN 0 ELSE IF i > Len(text) THEN Len(text) ELSE i
        a == Clamp(from)
        b == Clamp(to)
    IN IF a <= b THEN SubSeq(text, a + 1, b) ELSE SubSeq(text, b + 1, a)

includes(text, c) == \E i \in DOMAIN text : text[i] = c

\* The first two parts of text.split(c), for a text that includes c.
split(text, c) ==
    LET UpTo(t) == \* the part of t before the first c (all of t if none)
            IF includes(t, c)
            THEN SubSeq(t, 1, (CHOOSE i \in DOMAIN t :
                                  t[i] = c /\ \A j \in 1..(i - 1) : t[j] # c) - 1)
            ELSE t
        before == UpTo(text)
    IN <<before, UpTo(SubSeq(text, Len(before) + 2, Len(text)))>>

\* toDecimal as it would be if it did not pad the digits to decimalCount + 1.
toDecimalUnpadded(amount, decimalCount) ==
    IF decimalCount <= 0
    THEN DecimalString(amount) \o repeat("0", -decimalCount)
    ELSE LET amountStr == DecimalString(amount)
             splitPoint == Len(amountStr) - decimalCount
         IN substring(amountStr, 0, splitPoint) \o <<".">>
                \o substring(amountStr, splitPoint, Len(amountStr))

\* toDecimal(amount, decimalCount): base units to the decimal text of the
\* CEX's API.
toDecimal(amount, decimalCount) ==
    IF decimalCount <= 0
    THEN DecimalString(amount) \o repeat("0", -decimalCount)
    ELSE LET amountStr == padStart(DecimalString(amount), decimalCount + 1, "0")
             splitPoint == Len(amountStr) - decimalCount
         IN substring(amountStr, 0, splitPoint) \o <<".">>
                \o substring(amountStr, splitPoint, Len(amountStr))

\* The digits fromDecimal(amount, decimalCount) hands to new BN.
fromDecimalDigits(amount, decimalCount) ==
    IF includes(amount, ".")
    THEN LET before == split(amount, ".")[1]
             after == split(amount, ".")[2]
             whole == IF before = <<"0">> THEN <<>> ELSE before
         IN IF decimalCount < 0
            THEN substring(before, 0, Len(before) + decimalCount)
            ELSE IF Len(after) > decimalCount
            THEN whole \o substring(after, 0, decimalCount)
            ELSE whole \o padEnd(after, decimalCount, "0")
    ELSE IF decimalCount < 0
         THEN substring(amount, 0, Len(amount) + decimalCount)
         ELSE amount \o repeat("0", decimalCount)

\* fromDecimal(amount, decimalCount): the decimal text of the CEX's API to
\* base units.
fromDecimal(amount, decimalCount) == BN(fromDecimalDigits(amount, decimalCount))

\* currencyDecimals of the OKX client, the one the engine uses.
currencyDecimals ==
    [c \in {"BTC", "BTC-LN", "USDC", "USDT", "ETH", "SOL"} |->
        CASE c \in {"BTC", "BTC-LN"} -> 8
          [] c \in {"USDC", "USDT", "ETH"} -> 18
          [] OTHER -> 9]


\* currencyDecimals of the Binance client.
currencyDecimalsBinance ==
    [currency \in {"USDC", "USDT", "ETH", "SOL", "BTC"} |->
        CASE currency \in {"USDC", "USDT"} -> 6
          [] currency = "ETH" -> 18
          [] currency = "SOL" -> 9
          [] OTHER -> 8]

\* --------------------------------------------------------- trading pairs
\* getTradingPair as it would be if moving from BTC into ETH sold the pair.
getTradingPairSellsEth(venue, srcCurrency, dstCurrency) ==
    LET Pair(base, quote) ==
            IF venue = "OKX" THEN <<base, "-", quote>> ELSE <<base, quote>>
        Is(pair, buy) == [tradingPair |-> <<pair>>, buy |-> <<buy>>]
        first ==
            IF srcCurrency \in {"BTC", "BTC-LN"}
            THEN CASE dstCurrency = "USDC" -> Is(Pair("BTC", "USDC"), FALSE)
                   [] dstCurrency = "USDT" -> Is(Pair("BTC", "USDT"), FALSE)
                   [] dstCurrency = "ETH" -> Is(Pair("ETH", "BTC"), FALSE)
                   [] dstCurrency = "SOL" -> Is(Pair("SOL", "BTC"), TRUE)
                   [] OTHER -> [tradingPair |-> <<>>, buy |-> <<>>]
            ELSE [tradingPair |-> <<>>, buy |-> <<>>]
    IN IF dstCurrency \in {"BTC", "BTC-LN"}
       THEN CASE srcCurrency = "USDC" -> Is(Pair("BTC", "USDC"), TRUE)
              [] srcCurrency = "USDT" -> Is(Pair("BTC", "USDT"), TRUE)
              [] srcCurrency = "ETH" -> Is(Pair("ETH", "BTC"), FALSE)
              [] srcCurrency = "SOL" -> Is(Pair("SOL", "BTC"), FALSE)
              [] OTHER -> first
       ELSE first

\* getTradingPair(srcCurrency, dstCurrency) of the OKX client (pairs written
\* with a hyphen) and of the Binance client (concatenated): the two `if`s in
\* turn, each with its switch; tradingPair and buy stay unassigned (<<>>)
\* when no case matches.
getTradingPair(venue, srcCurrency, dstCurrency) ==
    LET Pair(base, quote) ==
            IF venue = "OKX" THEN <<base, "-", quote>> ELSE <<base, quote>>
        Is(pair, buy) == [tradingPair |-> <<pair>>, buy |-> <<buy>>]
        first ==
            IF srcCurrency \in {"BTC", "BTC-LN"}
            THEN CASE dstCurrency = "USDC" -> Is(Pair("BTC", "USDC"), FALSE)
                   [] dstCurrency = "USDT" -> Is(Pair("BTC", "USDT"), FALSE)
                   [] dstCurrency = "ETH" -> Is(Pair("ETH", "BTC"), TRUE)
                   [] dstCurrency = "SOL" -> Is(Pair("SOL", "BTC"), TRUE)
                   [] OTHER -> [tradingPair |-> <<>>, buy |-> <<>>]
            ELSE [tradingPair |-> <<>>, buy |-> <<>>]
    IN IF dstCurrency \in {"BTC", "BTC-LN"}
       THEN CASE srcCurrency = "USDC" -> Is(Pair("BTC", "USDC"), TRUE)
              [] srcCurrency = "USDT" -> Is(Pair("BTC", "USDT"), TRUE)
              [] srcCurrency = "ETH" -> Is(Pair("ETH", "BTC"), FALSE)
              [] srcCurrency = "SOL" -> Is(Pair("SOL", "BTC"), FALSE)
              [] OTHER -> first
       ELSE first

\* A value as JSON.stringify hands it to the replacer.  SerializeJSONProperty
\* calls the value's toJSON method before the replacer function, and a BN
\* has one (bn.js: toJSON() is toString(16)), so the replacer of
\* serializeState receives the hexadecimal string, never the BN.
toJSONDecimal(x) == [isBN |-> TRUE, bn |-> x, text |-> BNtoString(x, 10)]
toJSON(x) == [isBN |-> FALSE, bn |-> x, text |-> BNtoString(x, 16)]

\* "(value as BN).toString(10)" of the replacer: on a BN the decimal digits,
\* on a string (String.prototype.toString ignores its argument) the string.
replacer(v) == IF v.isBN THEN BNtoString(v.bn, 10) ELSE v.text

\* The reviver of loadState: new BN(value, 16).
reviver(text) == BNparse(text, 16)

\* serializeState(): JSON.stringify(this.state, replacer)
serializeState(s) ==
    [f \in DOMAIN s |->
        IF f \in BNFields /\ s[f] # None THEN Some(replacer(toJSON(s[f][1]))) ELSE s[f]]

\* JSON.parse(data, reviver)
parseState(d) ==
    [f \in DOMAIN d |->
        IF f \in BNFields /\ d[f] # None THEN Some(reviver(d[f][1])) ELSE d[f]]


\* ----------------------------------------------------------------- state
VARIABLES
    state,      \* this.state, the in-memory job
    disk,       \* the text of storage/hedge-plugin-state.json (NoFile: absent)
    archive,    \* the documents written to storage/archive/, oldest first
    pc,         \* pc[p]: where process p is suspended, or the code it runs
    stk,        \* stk[p]: the frames of p's callers suspended in await setState
    loc,        \* loc[p]: the locals of p's running frame
    run,        \* the process executing synchronous code, or NoProc
    booting,    \* onEnable has not yet reached setInterval
    ext,        \* the objects outside the process, by id (see NewExt)
    jobs,       \* number of jobs created so far
    crashes,    \* number of crashes so far
    clean,      \* no check has started while another was suspended, so far
    faults,     \* number of adapter calls and outside objects that have failed
    fired,      \* number of timer firings counted (see TimerFireCounted)
    visited,    \* the states the current job has been persisted in
    wire        \* an amount, the text sent for it and the amount read back

vars ==
    <<state, disk, archive, pc, stk, loc, run, booting, ext, jobs, crashes, clean, faults,
      fired, visited, wire>>

docVars == <<state, disk, archive, visited>>
procVars == <<pc, stk, loc, run>>

Procs == {"timer", "mon1", "mon2"}
Monitors == {"mon1", "mon2"}
NoProc == "none"

\* The locals of a frame of check(): the argument of a pending setState and
\* the label that follows it, a local id (invoice, transaction, client id),
\* the transactions sendAndConfirm has still to send and the candidate map
\* it fills (k), the candidates a confirmation scan has still to query and
\* its two flags, the index of the last `if` of check() already passed, the
\* job object an assignment "this.state.f = await ..." will write to (obj),
\* the text a pending fs.writeFile is writing (txt), and the amount argument
\* of a pending withdraw or txsDeposit (amount).  made is not a local: it
\* counts the transitions setState has saved since func() or the monitor's
\* callback started, whatever the frame.
Loc0 ==
    [target |-> "null", cont |-> "ret", id |-> 0, n |-> 0, k |-> "none",
     scan |-> <<>>, pend |-> FALSE, nfr |-> FALSE, from |-> -2, obj |-> 0,
     txt |-> NoFile, amount |-> 0, made |-> 0]

\* ----------------------------------------------------------- the outside
\* An object outside the process: a Lightning invoice of the CEX ("ln"), an
\* on-chain transaction funded by the wallet ("btc"), a smart-chain
\* transaction ("scw" withdraw, "sct" transfer to the CEX, "scd" deposit), a
\* CEX order, transfer or withdrawal named by its client id ("ord", "xfer",
\* "wd"), the CEX's payout ("in").  st: "new" (created, not yet sent or not
\* yet received by the CEX), "sent" (in flight), "ok", "bad", "replaced" (a
\* smart-chain transaction given up for a replacement).
\* job: the job whose document was in memory when it was created.
\* out: for a completed withdrawal, the id of the payout it made.
\* saved: the document naming it, in its follow-up state, has been written.
\* amt: for a withdrawal the CEX has received, the amt of the request.
\* amount: for a deposit transaction, the amount txsDeposit was called with.
\* lock: for a transaction funded by the wallet, its inputs are locked by
\* fundPsbt and have not been unlocked.
NewExt(kind) ==
    [kind |-> kind, st |-> "new", job |-> state.job, saved |-> FALSE, out |-> 0,
     amt |-> <<>>, amount |-> 0, lock |-> FALSE]

NextId == Len(ext) + 1

\* SwapContract.getTxStatus(rawTx)
getTxStatus(id) ==
    CASE ext[id].st \in {"new", "replaced"} -> "not_found"
      [] ext[id].st = "sent" -> "pending"
      [] ext[id].st = "ok" -> "success"
      [] OTHER -> "reverted"

\* ------------------------------------------------------------ persistence
\* fs.writeFile("storage/"+STATE_FILENAME, this.serializeState())
saveState(s) == serializeState(s)

\* loadState(): the parsed document, or this.state left unassigned when the
\* file cannot be read.
loadState(d) == IF d.state = "nofile" THEN Undefined ELSE parseState(d)

\* The objects a written document names in their follow-up state.
Tracked(d) ==
    CASE d.state = "OUT_TX" /\ Has(d, "outTxs") -> {d.outTxs[1][i] : i \in DOMAIN d.outTxs[1]}
      [] d.state = "TRADE_EXECUTING" /\ Has(d, "clientOrderId") -> {d.clientOrderId[1]}
      [] d.state = "FUNDS_TRANSFERING" /\ Has(d, "clientTransferId") -> {d.clientTransferId[1]}
      [] d.state = "WITHDRAWING" /\ Has(d, "withdrawalId") -> {d.withdrawalId[1]}
      [] OTHER -> {}

MarkSaved(e, d) ==
    [i \in DOMAIN e |-> IF i \in Tracked(d) THEN [e[i] EXCEPT !.saved = TRUE] ELSE e[i]]

\* ------------------------------------------------------------ scheduling
Running(p, l) == run = p /\ pc[p] = l
Resumes(p, l) == run = NoProc /\ pc[p] = l

Await(p, l) == pc' = [pc EXCEPT ![p] = l] /\ run' = NoProc
Step(p, l) == pc' = [pc EXCEPT ![p] = l] /\ run' = p

\* "await this.setState(S)" followed by the code at label cont.
CallSetState(p, S, cont, l) ==
    /\ Step(p, "setState")
    /\ loc' = [loc EXCEPT ![p] = [l EXCEPT !.target = S, !.cont = cont]]

\* The labels at which a process is suspended inside an adapter call made
\* by a handler of check().
AdapterCalls ==
    {"trig_addr", "trig_fund", "trig_sign", "trig_pay", "trig_bcast", "sac_txs",
     "sac_sign", "sac_send", "scan", "otx_btc", "otx_ln", "otc_dep", "dr_trade",
     "te_get", "te_bal", "tx_xfer", "ftg_get", "ftd_fee", "ftd_addr", "ftd_wd",
     "wg_get", "ws_get", "fin_arch", "fin_rm"}

\* An adapter call fails, or an object outside fails.
Fault == faults < MaxFaults /\ faults' = faults + 1 /\ UNCHANGED <<clean, fired>>

\* Another process is suspended inside a handler of check().
Overlaps(p) == \E q \in Procs \ {p} : pc[q] \in AdapterCalls

\* The amounts a monitor run may compute for amountOut.
AmountOuts == {26}

\* The job the monitor seeds: this.state = {state: null} and the five fields.
Seed(src, dst, amount, n) ==
    [NullState EXCEPT !.job = n,
        !.srcToken = Some(src),
        !.srcTokenAddress = Some(IF src = "USDC" THEN "usdcAddress" ELSE ""),
        !.dstToken = Some(dst),
        !.dstTokenAddress = Some(IF dst = "USDC" THEN "usdcAddress" ELSE ""),
        !.amountOut = Some(amount)]

\* The file found at start: none, or the document of a Lightning job seeded
\* by hand (the seeding left commented out in onEnable), which the monitor
\* itself never creates.
InitDocs ==
    {NoFile} \cup
    {saveState([Seed(pair[1], pair[2], a, 1) EXCEPT !.state = "TRIGGERED"]) :
        pair \in {<<"BTC-LN", "USDC">>, <<"USDC", "BTC-LN">>}, a \in AmountOuts}

\* The documents of freshly seeded jobs, as setState(TRIGGERED) writes them.
EngineDocs ==
    {saveState([Seed(pair[1], pair[2], a, 1) EXCEPT !.state = "TRIGGERED"]) :
        pair \in {<<"BTC", "USDC">>, <<"USDC", "BTC">>,
                  <<"BTC-LN", "USDC">>, <<"USDC", "BTC-LN">>}, a \in AmountOuts}

\* onEnable up to runSwapStateChecker, on the file d.
Start(d) ==
    /\ disk = d
    /\ state = loadState(d)
    /\ archive = <<>>
    /\ pc = [p \in Procs |-> IF p = "timer" THEN "t_wait" ELSE "m_off"]
    /\ stk = [p \in Procs |-> <<>>]
    /\ loc = [p \in Procs |-> Loc0]
    /\ run = NoProc
    /\ booting = TRUE
    /\ ext = <<>>
    /\ jobs = IF d = NoFile THEN 0 ELSE 1
    /\ crashes = 0
    /\ clean = TRUE
    /\ faults = 0
    /\ fired = 0
    /\ visited = IF d = NoFile THEN {} ELSE {"TRIGGERED"}

\* No conversion under way.
NoWire == [amount |-> 0, decimalCount |-> 0, text |-> <<>>, back |-> 0, at |-> "none"]

Init == \E d \in InitDocs : Start(d) /\ wire = NoWire

InitEngine == \E d \in EngineDocs : Start(d) /\ wire = NoWire

\* --------------------------------------------------- runSwapStateChecker
\* The timer fires: func() calls this.check().
func ==
    /\ Resumes("timer", "t_wait")
    /\ Step("timer", "check")
    /\ loc' = [loc EXCEPT !["timer"] = Loc0]
    /\ UNCHANGED <<docVars, stk, booting, ext, jobs, wire, crashes, clean, faults>>

TimerFire == func /\ UNCHANGED fired

\* The same, among the first MaxFires firings of a behaviour.
TimerFireCounted == fired < MaxFires /\ func /\ fired' = fired + 1

\* ----------------------------------------------------------------- setState
\* setState as it would be without the required-field loop.
setStateUnchecked(p) ==
    /\ Running(p, "setState")
    /\ state' = [state EXCEPT !.state = loc[p].target]
    /\ loc' = [loc EXCEPT ![p].txt = serializeState(state')]
    /\ Await(p, "saving")
    /\ UNCHANGED <<disk, archive, visited, stk, booting, ext, jobs, wire, crashes, clean, faults, fired>>

\* The required-field loop, "this.state.state = newState" and the call of
\* saveState(), whose text is serialised here and now; fs.writeFile is then
\* awaited.
setState(p) ==
    /\ Running(p, "setState")
    /\ LET S == loc[p].target IN
       IF \E f \in REQUIRED_FIELDS[S] : ~Has(state, f)
       THEN /\ Step(p, "throw")
            /\ UNCHANGED <<state, loc>>
       ELSE /\ state' = [state EXCEPT !.state = S]
            /\ loc' = [loc EXCEPT ![p].txt = saveState(state')]
            /\ Await(p, "saving")
    /\ UNCHANGED <<disk, archive, visited, stk, booting, ext, jobs, wire, crashes, clean, faults, fired>>

\* fs.writeFile has completed: the file holds the text, and setState goes on
\* to "await this.check()".  The caller stays on the stack when code follows
\* its await setState.
Saved(p) ==
    /\ Resumes(p, "saving")
    /\ disk' = loc[p].txt
    /\ ext' = MarkSaved(ext, disk')
    /\ visited' = visited \cup {loc[p].target}
    /\ Step(p, "check")
    /\ stk' = [stk EXCEPT ![p] =
                 IF loc[p].cont = "ret" THEN @
                 ELSE <<[ret |-> loc[p].cont, loc |-> [loc[p] EXCEPT !.txt = NoFile]]>> \o @]
    /\ loc' = [loc EXCEPT ![p] = [Loc0 EXCEPT !.made = loc[p].made + 1]]
    /\ UNCHANGED <<state, archive, booting, jobs, wire, crashes, clean, faults, fired>>

\* A frame of check() returns.
Return(p) ==
    /\ Running(p, "ret")
    /\ IF stk[p] = <<>>
       THEN /\ Await(p, IF p = "timer" THEN "t_wait" ELSE "m_off")
            /\ booting' = (booting /\ p # "timer")
            /\ loc' = [loc EXCEPT ![p].made = 0]
            /\ UNCHANGED stk
       ELSE /\ Step(p, Head(stk[p]).ret)
            /\ loc' = [loc EXCEPT ![p] = [Head(stk[p]).loc EXCEPT !.made = loc[p].made]]
            /\ stk' = [stk EXCEPT ![p] = Tail(@)]
            /\ UNCHANGED booting
    /\ UNCHANGED <<docVars, ext, jobs, wire, crashes, clean, faults, fired>>

\* An exception leaves a frame of check().  The try block of FUNDS_TRANSFERING
\* catches it; nothing else does before func() of runSwapStateChecker
\* (console.error) or the end of the setInterval callback.
Throw(p) ==
    /\ Running(p, "throw")
    /\ IF stk[p] = <<>>
       THEN /\ Await(p, IF p = "timer" THEN "t_wait" ELSE "m_off")
            /\ booting' = (booting /\ p # "timer")
            /\ loc' = [loc EXCEPT ![p].made = 0]
            /\ UNCHANGED stk
       ELSE /\ Step(p, IF Head(stk[p]).ret = "ftg_try" THEN "ret" ELSE "throw")
            /\ loc' = [loc EXCEPT ![p] = [Head(stk[p]).loc EXCEPT !.made = loc[p].made]]
            /\ stk' = [stk EXCEPT ![p] = Tail(@)]
            /\ UNCHANGED booting
    /\ UNCHANGED <<docVars, ext, jobs, wire, crashes, clean, faults, fired>>

\* check() as it would be if it resumed a RETRYING job without waiting for
\* retryAt.
checkRetriesAtOnce(p) ==
    /\ Running(p, "check")
    /\ IF state.state = "undefined" \/ (Has(state, "cooldown") /\ state.cooldown[1] > 0)
       THEN Step(p, "ret") /\ UNCHANGED loc
       ELSE IF state.state = "RETRYING"
       THEN CallSetState(p, state.retryState[1], "ret", loc[p])
       ELSE Step(p, "dispatch") /\ loc' = [loc EXCEPT ![p].from = RebalancingState.RETRYING]
    /\ clean' = (clean /\ ~Overlaps(p))
    /\ UNCHANGED <<docVars, stk, booting, ext, jobs, wire, crashes, faults, fired>>

\* check() as it would be without the test of the cooldown.
checkUngated(p) ==
    /\ Running(p, "check")
    /\ IF state.state = "undefined"
       THEN Step(p, "ret") /\ UNCHANGED loc
       ELSE IF state.state = "RETRYING"
       THEN IF state.retryAt[1] < 0
            THEN CallSetState(p, state.retryState[1], "ret", loc[p])
            ELSE Step(p, "ret") /\ UNCHANGED loc
       ELSE Step(p, "dispatch") /\ loc' = [loc EXCEPT ![p].from = RebalancingState.RETRYING]
    /\ clean' = (clean /\ ~Overlaps(p))
    /\ UNCHANGED <<docVars, stk, booting, ext, jobs, wire, crashes, faults, fired>>

\* -------------------------------------------------------------------- check
\* The head of check(): no job, cooldown, RETRYING.
check(p) ==
    /\ Running(p, "check")
    /\ IF state.state = "undefined" \/ (Has(state, "cooldown") /\ state.cooldown[1] > 0)
       THEN Step(p, "ret") /\ UNCHANGED loc
       ELSE IF state.state = "RETRYING"
       THEN IF state.retryAt[1] < 0
            THEN CallSetState(p, state.retryState[1], "ret", loc[p])
            ELSE Step(p, "ret") /\ UNCHANGED loc
       ELSE Step(p, "dispatch") /\ loc' = [loc EXCEPT ![p].from = RebalancingState.RETRYING]
    /\ clean' = (clean /\ ~Overlaps(p))
    /\ UNCHANGED <<docVars, stk, booting, ext, jobs, wire, crashes, faults, fired>>

\* The `if` of check() that the job's state selects among those not yet
\* passed, or "none".
Handler(p) ==
    IF state.state \in States /\ RebalancingState[state.state] > loc[p].from
    THEN state.state ELSE "none"

\* No remaining `if` of check() matches: check() returns.
NoHandler(p) ==
    /\ Running(p, "dispatch")
    /\ Handler(p) \in {"none", "IDLE"}
    /\ Step(p, "ret")
    /\ UNCHANGED <<docVars, stk, loc, booting, ext, jobs, wire, crashes, clean, faults, fired>>


\* ---------------------------------------------------------------- helpers
SetSt(e, id, st) == [e EXCEPT ![id].st = st]

\* The candidate map a sendAndConfirm / confirmation scan of kind k works on,
\* the state its broadcast callback sets, the field and state of a success.
MapField(k) ==
    CASE k = "scw" -> "scWithdrawTxs" [] k = "sct" -> "outTxs" [] OTHER -> "scDepositTxs"
BroadcastState(k) ==
    CASE k = "scw" -> "SC_WITHDRAWING" [] k = "sct" -> "OUT_TX" [] OTHER -> "SC_DEPOSITING"
ConfirmedField(k) ==
    CASE k = "scw" -> "scWithdrawTxId" [] k = "sct" -> "outTxId" [] OTHER -> "scDepositTxId"
ConfirmedState(k) ==
    CASE k = "scw" -> "SC_WITHDRAWAL_CONFIRMED" [] k = "sct" -> "OUT_TX_CONFIRMED"
      [] OTHER -> "SC_DEPOSITED"

IsBtc(t) == t = Some("BTC") \/ t = Some("BTC-LN")

\* ---------------------------------------------------------------- TRIGGERED
\* if(state===TRIGGERED): up to the first await.
Triggered(p) ==
    /\ Running(p, "dispatch")
    /\ Handler(p) = "TRIGGERED"
    /\ IF IsBtc(state.srcToken)
       THEN Await(p, "trig_addr") /\ UNCHANGED loc
       ELSE Await(p, "sac_txs") /\ loc' = [loc EXCEPT ![p].k = "scw"]
    /\ UNCHANGED <<docVars, stk, booting, ext, jobs, wire, crashes, clean, faults, fired>>

\* okxV5Api.getDepositAddress(srcToken, null, amountOut) throws.
TrigAddrThrows(p) ==
    /\ Resumes(p, "trig_addr")
    /\ Step(p, "throw")
    /\ Fault
    /\ UNCHANGED <<docVars, stk, loc, booting, ext, jobs, wire, crashes>>

\* getDepositAddress returns.  BTC-LN: the CEX's invoice is recorded in
\* outTxs under its payment hash, then OUT_TX, then (TrigPay) lncli.pay.
\* BTC: lncli.fundPsbt; "this.state.amountOut.toNumber()" throws inside the
\* try when the job in memory has no amountOut.
TrigAddr(p) ==
    /\ Resumes(p, "trig_addr")
    /\ IF state.srcToken = Some("BTC-LN")
       THEN /\ Len(ext) < MaxExt
            /\ ext' = Append(ext, NewExt("ln"))
            /\ state' = [state EXCEPT !.outTxs = Some(<<NextId>>),
                                      !.cooldown = Some(cooldownTime)]
            /\ CallSetState(p, "OUT_TX", "trig_pay_go", [loc[p] EXCEPT !.id = NextId])
       ELSE /\ IF Has(state, "amountOut")
               THEN Await(p, "trig_fund") /\ UNCHANGED loc
               ELSE CallSetState(p, "IDLE", "ret", loc[p])
            /\ UNCHANGED <<state, ext>>
    /\ UNCHANGED <<disk, archive, visited, stk, booting, jobs, wire, crashes, clean, faults, fired>>

\* After "await this.setState(OUT_TX)": lncli.pay is called.
TrigPayGo(p) ==
    /\ Running(p, "trig_pay_go")
    /\ Await(p, "trig_pay")
    /\ UNCHANGED <<docVars, stk, loc, booting, ext, jobs, wire, crashes, clean, faults, fired>>

\* LND starts the payment (or the wallet's peers see the broadcast
\* transaction) while the call is still awaited.
Delivered(p) ==
    /\ run = NoProc
    /\ pc[p] \in {"trig_pay", "trig_bcast"}
    /\ ext[loc[p].id].st = "new"
    /\ ext' = SetSt(ext, loc[p].id, "sent")
    /\ UNCHANGED <<docVars, procVars, booting, jobs, wire, crashes, clean, faults, fired>>

\* lncli.pay resolves: the payment has settled.
TrigPayOk(p) ==
    /\ Resumes(p, "trig_pay")
    /\ ext[loc[p].id].st = "ok"
    /\ Step(p, "ret")
    /\ UNCHANGED <<docVars, stk, loc, booting, ext, jobs, wire, crashes, clean, faults, fired>>

\* lncli.pay rejects (.catch gives undefined): setState(IDLE).  The payment
\* failed, or the call failed for another reason.
TrigPayFails(p) ==
    /\ Resumes(p, "trig_pay")
    /\ CallSetState(p, "IDLE", "ret", loc[p])
    /\ Fault
    /\ UNCHANGED <<docVars, stk, booting, ext, jobs, wire, crashes>>

\* lncli.fundPsbt: the funded psbt reserves inputs, or the call throws
\* (caught: fundPsbtResponse==null, setState(IDLE)).
TrigFund(p) ==
    /\ Resumes(p, "trig_fund")
    /\ \/ /\ Len(ext) < MaxExt
          /\ ext' = Append(ext, [NewExt("btc") EXCEPT !.lock = TRUE])
          /\ Await(p, "trig_sign")
          /\ loc' = [loc EXCEPT ![p].id = NextId]
          /\ UNCHANGED <<clean, faults, fired>>
       \/ /\ CallSetState(p, "IDLE", "ret", loc[p])
          /\ Fault
          /\ UNCHANGED ext
    /\ UNCHANGED <<docVars, stk, booting, jobs, wire, crashes>>

\* unlockUtxos(): lncli.unlockUtxo for every input of fundPsbtResponse, the
\* answer to this run's fundPsbt.
unlockUtxos(p) == ext' = [ext EXCEPT ![loc[p].id].lock = FALSE]

\* lncli.signPsbt: the txId is recorded in outTxs, then OUT_TX, then
\* (TrigBcast) broadcastChainTransaction; or it throws (caught: unlockUtxos,
\* setState(IDLE)).
TrigSign(p) ==
    /\ Resumes(p, "trig_sign")
    /\ \/ /\ state' = [state EXCEPT !.outTxs = Some(<<loc[p].id>>),
                                    !.cooldown = Some(cooldownTime)]
          /\ CallSetState(p, "OUT_TX", "trig_bcast_go", loc[p])
          /\ UNCHANGED <<clean, faults, fired>>
          /\ UNCHANGED ext
       \/ /\ unlockUtxos(p)
          /\ CallSetState(p, "IDLE", "ret", loc[p])
          /\ Fault
          /\ UNCHANGED state
    /\ UNCHANGED <<disk, archive, visited, stk, booting, jobs, wire, crashes>>

TrigBcastGo(p) ==
    /\ Running(p, "trig_bcast_go")
    /\ Await(p, "trig_bcast")
    /\ UNCHANGED <<docVars, stk, loc, booting, ext, jobs, wire, crashes, clean, faults, fired>>

\* broadcastChainTransaction resolves: the transaction was accepted.
TrigBcastOk(p) ==
    /\ Resumes(p, "trig_bcast")
    /\ ext[loc[p].id].st # "new"
    /\ Step(p, "ret")
    /\ UNCHANGED <<docVars, stk, loc, booting, ext, jobs, wire, crashes, clean, faults, fired>>

\* broadcastChainTransaction throws (caught: unlockUtxos, setState(IDLE)).
TrigBcastFails(p) ==
    /\ Resumes(p, "trig_bcast")
    /\ unlockUtxos(p)
    /\ CallSetState(p, "IDLE", "ret", loc[p])
    /\ Fault
    /\ UNCHANGED <<docVars, stk, booting, jobs, wire, crashes>>

\* ----------------------------------------------------------- sendAndConfirm
\* txsWithdraw / getDepositAddress + txsTransfer / txsDeposit return n
\* transactions: the candidate map is reset to {} and sendAndConfirm starts.
SacTxs(p) ==
    /\ Resumes(p, "sac_txs")
    /\ \E n \in 1..MaxBatch :
         loc' = [loc EXCEPT ![p].n = n]
    /\ state' = [state EXCEPT ![MapField(loc[p].k)] = Some(<<>>)]
    /\ Await(p, "sac_sign")
    /\ UNCHANGED <<disk, archive, visited, stk, booting, ext, jobs, wire, crashes, clean, faults, fired>>

\* ... or one of these calls throws.
SacTxsThrows(p) ==
    /\ Resumes(p, "sac_txs")
    /\ Step(p, "throw")
    /\ Fault
    /\ UNCHANGED <<docVars, stk, loc, booting, ext, jobs, wire, crashes>>

\* sendAndConfirm calls the callback for the next transaction, before it is
\* published: the candidate is added to the map, the cooldown set and the
\* broadcast state entered.  The map is read from the job now in memory.
SacCallback(p) ==
    /\ Resumes(p, "sac_sign")
    /\ IF ~Has(state, MapField(loc[p].k))
       THEN /\ Step(p, "throw")
            /\ UNCHANGED <<state, ext, loc>>
       ELSE /\ Len(ext) < MaxExt
            /\ ext' = Append(ext, [NewExt(loc[p].k) EXCEPT
                                      !.amount = IF loc[p].k = "scd" THEN loc[p].amount ELSE 0])
            /\ state' = [state EXCEPT ![MapField(loc[p].k)] = Some(Append(@[1], NextId)),
                                      !.cooldown = Some(cooldownTime)]
            /\ CallSetState(p, BroadcastState(loc[p].k), "sac_send_go",
                            [loc[p] EXCEPT !.id = NextId, !.n = @ - 1])
    /\ UNCHANGED <<disk, archive, visited, stk, booting, jobs, wire, crashes, clean, faults, fired>>

SacSendGo(p) ==
    /\ Running(p, "sac_send_go")
    /\ Await(p, "sac_send")
    /\ UNCHANGED <<docVars, stk, loc, booting, ext, jobs, wire, crashes, clean, faults, fired>>

\* The transaction is published; sendAndConfirm goes on to the next one or
\* returns.  After the sendAndConfirm of IN_TX_CONFIRMED check() falls
\* through to the following ifs; the other two handlers return.
SacSend(p) ==
    /\ Resumes(p, "sac_send")
    /\ ext' = IF ext[loc[p].id].st = "new" THEN SetSt(ext, loc[p].id, "sent") ELSE ext
    /\ IF loc[p].n > 0
       THEN Await(p, "sac_sign") /\ UNCHANGED loc
       ELSE IF loc[p].k = "scd"
       THEN /\ Step(p, "dispatch")
            /\ loc' = [loc EXCEPT ![p].from = RebalancingState.IN_TX_CONFIRMED]
       ELSE Step(p, "ret") /\ UNCHANGED loc
    /\ UNCHANGED <<docVars, stk, booting, jobs, wire, crashes, clean, faults, fired>>

\* Publishing fails: sendAndConfirm rejects.
SacSendThrows(p) ==
    /\ Resumes(p, "sac_send")
    /\ Step(p, "throw")
    /\ Fault
    /\ UNCHANGED <<docVars, stk, loc, booting, ext, jobs, wire, crashes>>

\* -------------------------------------------------------- confirmation scan
\* The for-in loop over a candidate map: up to the first getTxStatus.
StartScan(p, k) ==
    IF state[MapField(k)][1] = <<>>
    THEN Step(p, "ret") /\ UNCHANGED loc
    ELSE /\ Await(p, "scan")
         /\ loc' = [loc EXCEPT ![p].k = k, ![p].scan = state[MapField(k)][1],
                               ![p].pend = FALSE, ![p].nfr = FALSE]

\* The code after the loop as it would be if it did not test isSomePending.
ScanEndIgnoresPending(p, pend, nfr) ==
    IF nfr
    THEN CASE loc[p].k = "scw" ->
                /\ state' = [state EXCEPT !.scWithdrawTxs = Some(<<>>)]
                /\ CallSetState(p, "IDLE", "ret", loc[p])
           [] loc[p].k = "sct" ->
                /\ state' = [state EXCEPT !.outTxs = Some(<<>>),
                                          !.retryAt = Some(retryTime),
                                          !.retryState = Some("SC_WITHDRAWAL_CONFIRMED")]
                /\ CallSetState(p, "RETRYING", "ret", loc[p])
           [] OTHER ->
                /\ state' = [state EXCEPT !.retryAt = Some(retryTime),
                                          !.retryState = Some("IN_TX_CONFIRMED")]
                /\ CallSetState(p, "RETRYING", "ret", loc[p])
    ELSE Step(p, "ret") /\ UNCHANGED <<state, loc>>

\* The code after the loop, given the flags: all candidates not_found or
\* reverted and none pending.
ScanEnd(p, pend, nfr) ==
    IF nfr /\ ~pend
    THEN CASE loc[p].k = "scw" ->
                /\ state' = [state EXCEPT !.scWithdrawTxs = Some(<<>>)]
                /\ CallSetState(p, "IDLE", "ret", loc[p])
           [] loc[p].k = "sct" ->
                /\ state' = [state EXCEPT !.outTxs = Some(<<>>),
                                          !.retryAt = Some(retryTime),
                                          !.retryState = Some("SC_WITHDRAWAL_CONFIRMED")]
                /\ CallSetState(p, "RETRYING", "ret", loc[p])
           [] OTHER ->
                /\ state' = [state EXCEPT !.retryAt = Some(retryTime),
                                          !.retryState = Some("IN_TX_CONFIRMED")]
                /\ CallSetState(p, "RETRYING", "ret", loc[p])
    ELSE Step(p, "ret") /\ UNCHANGED <<state, loc>>

\* getTxStatus of the next candidate returns.
Scan(p) ==
    /\ Resumes(p, "scan")
    /\ LET id == Head(loc[p].scan)
           r == getTxStatus(id)
           pend == loc[p].pend \/ r = "pending"
           nfr == loc[p].nfr \/ r \in {"not_found", "reverted"}
       IN IF r = "success"
          THEN /\ state' = [state EXCEPT ![ConfirmedField(loc[p].k)] = Some(id)]
               /\ CallSetState(p, ConfirmedState(loc[p].k), "ret", loc[p])
          ELSE IF Tail(loc[p].scan) # <<>>
          THEN IF Has(state, MapField(loc[p].k))
               THEN /\ Await(p, "scan")
                    /\ loc' = [loc EXCEPT ![p].scan = Tail(@), ![p].pend = pend, ![p].nfr = nfr]
                    /\ UNCHANGED state
               ELSE Step(p, "throw") /\ UNCHANGED <<state, loc>>
          ELSE ScanEnd(p, pend, nfr)
    /\ UNCHANGED <<disk, archive, visited, stk, booting, ext, jobs, wire, crashes, clean, faults, fired>>

ScanThrows(p) ==
    /\ Resumes(p, "scan")
    /\ Step(p, "throw")
    /\ Fault
    /\ UNCHANGED <<docVars, stk, loc, booting, ext, jobs, wire, crashes>>

\* if(state===SC_WITHDRAWING)
ScWithdrawing(p) ==
    /\ Running(p, "dispatch")
    /\ Handler(p) = "SC_WITHDRAWING"
    /\ StartScan(p, "scw")
    /\ UNCHANGED <<docVars, stk, booting, ext, jobs, wire, crashes, clean, faults, fired>>

\* if(state===SC_WITHDRAWAL_CONFIRMED): getDepositAddress, txsTransfer.
ScWithdrawalConfirmed(p) ==
    /\ Running(p, "dispatch")
    /\ Handler(p) = "SC_WITHDRAWAL_CONFIRMED"
    /\ Await(p, "sac_txs")
    /\ loc' = [loc EXCEPT ![p].k = "sct"]
    /\ UNCHANGED <<docVars, stk, booting, ext, jobs, wire, crashes, clean, faults, fired>>

\* -------------------------------------------------------------------- OUT_TX
\* if(state===OUT_TX): the rail is chosen by srcToken.
OutTx(p) ==
    /\ Running(p, "dispatch")
    /\ Handler(p) = "OUT_TX"
    /\ LET keys == state.outTxs[1]
           first == IF keys = <<>> THEN 0 ELSE Head(keys)
       IN IF state.srcToken = Some("BTC")
          THEN Await(p, "otx_btc") /\ loc' = [loc EXCEPT ![p].id = first]
          ELSE IF state.srcToken = Some("BTC-LN")
          THEN Await(p, "otx_ln") /\ loc' = [loc EXCEPT ![p].id = first]
          ELSE StartScan(p, "sct")
    /\ UNCHANGED <<docVars, stk, booting, ext, jobs, wire, crashes, clean, faults, fired>>

StOf(id) == IF id = 0 THEN "new" ELSE ext[id].st

\* The OUT_TX action for BTC as it would be if it did not wait for a
\* confirmation.
OutTxBtcUnconfirmed(p) ==
    /\ Resumes(p, "otx_btc")
    /\ CASE StOf(loc[p].id) \in {"new", "bad"} ->
              CallSetState(p, "IDLE", "ret", loc[p]) /\ UNCHANGED state
         [] OTHER ->
              /\ state' = [state EXCEPT !.outTxId = Some(loc[p].id)]
              /\ CallSetState(p, "OUT_TX_CONFIRMED", "ret", loc[p])
    /\ UNCHANGED <<disk, archive, visited, stk, booting, ext, jobs, wire, crashes, clean, faults, fired>>

\* bitcoinRpc.getTransaction(txId) returns: null, 0 confirmations, or >= 1.
OutTxBtc(p) ==
    /\ Resumes(p, "otx_btc")
    /\ CASE StOf(loc[p].id) \in {"new", "bad"} ->
              CallSetState(p, "IDLE", "ret", loc[p]) /\ UNCHANGED state
         [] StOf(loc[p].id) = "sent" ->
              Step(p, "ret") /\ UNCHANGED <<state, loc>>
         [] OTHER ->
              /\ state' = [state EXCEPT !.outTxId = Some(loc[p].id)]
              /\ CallSetState(p, "OUT_TX_CONFIRMED", "ret", loc[p])
    /\ UNCHANGED <<disk, archive, visited, stk, booting, ext, jobs, wire, crashes, clean, faults, fired>>

OutTxBtcThrows(p) ==
    /\ Resumes(p, "otx_btc")
    /\ Step(p, "throw")
    /\ Fault
    /\ UNCHANGED <<docVars, stk, loc, booting, ext, jobs, wire, crashes>>

\* lncli.getPayment returns: not found or failed, pending, or confirmed.
OutTxLn(p) ==
    /\ Resumes(p, "otx_ln")
    /\ CASE StOf(loc[p].id) \in {"new", "bad"} ->
              CallSetState(p, "IDLE", "ret", loc[p]) /\ UNCHANGED state
         [] StOf(loc[p].id) = "sent" ->
              Step(p, "ret") /\ UNCHANGED <<state, loc>>
         [] OTHER ->
              /\ state' = [state EXCEPT !.outTxId = Some(loc[p].id)]
              /\ CallSetState(p, "OUT_TX_CONFIRMED", "ret", loc[p])
    /\ UNCHANGED <<disk, archive, visited, stk, booting, ext, jobs, wire, crashes, clean, faults, fired>>

\* lncli.getPayment rejects: .catch gives undefined, which reads as "the
\* payment does not exist".
OutTxLnFails(p) ==
    /\ Resumes(p, "otx_ln")
    /\ CallSetState(p, "IDLE", "ret", loc[p])
    /\ Fault
    /\ UNCHANGED <<docVars, stk, booting, ext, jobs, wire, crashes>>


\* ------------------------------------------------------- the CEX's answers
\* The balances getBalance(dstToken) may report after the fill, and the fees
\* getWithdrawalFee may read from the currency's maxFee.
AmountIns == {2000}
Fees == {3, 5}

Token(t) == IF t = None THEN "none" ELSE t[1]

\* RETRYING(target) as the handlers enter it: retryAt = Date.now()+retryTime.
Retry(p, target, cont) ==
    /\ state' = [state EXCEPT !.retryAt = Some(retryTime), !.retryState = Some(target)]
    /\ CallSetState(p, "RETRYING", cont, loc[p])

\* A handler whose first statement awaits an adapter call on an id read from
\* the job: if(state===S) { await call(this.state[field]) ... }
StartOn(p, S, field, label) ==
    /\ Running(p, "dispatch")
    /\ Handler(p) = S
    /\ Await(p, label)
    /\ loc' = [loc EXCEPT ![p].id = state[field][1], ![p].k = Token(state.dstToken)]
    /\ UNCHANGED <<docVars, stk, booting, ext, jobs, wire, crashes, clean, faults, fired>>

\* An awaited call throws and nothing in the handler catches it.
Throws(p, label) ==
    /\ Resumes(p, label)
    /\ Step(p, "throw")
    /\ Fault
    /\ UNCHANGED <<docVars, stk, loc, booting, ext, jobs, wire, crashes>>

\* An awaited call throws, the handler catches it and returns.
Swallowed(p, label) ==
    /\ Resumes(p, label)
    /\ Step(p, "ret")
    /\ Fault
    /\ UNCHANGED <<docVars, stk, loc, booting, ext, jobs, wire, crashes>>

\* A handler that would mint its client id and go on to the submission
\* without entering S and without saving the document first.
MintUnsaved(p, kind, field, S, cont) ==
    /\ Len(ext) < MaxExt
    /\ ext' = Append(ext, NewExt(kind))
    /\ state' = [state EXCEPT ![field] = Some(NextId), !.cooldown = Some(cooldownTime)]
    /\ Step(p, cont)
    /\ loc' = [loc EXCEPT ![p].id = NextId]

\* A handler mints a client id (randomBytes(16)), stores it in `field`, sets
\* the cooldown and enters S; the submission follows at label cont.
Mint(p, kind, field, S, cont) ==
    /\ Len(ext) < MaxExt
    /\ ext' = Append(ext, NewExt(kind))
    /\ state' = [state EXCEPT ![field] = Some(NextId), !.cooldown = Some(cooldownTime)]
    /\ CallSetState(p, S, cont, [loc[p] EXCEPT !.id = NextId])

\* The request reaches the CEX (whether or not the answer arrives): the
\* order or transfer exists from now on.
Submitted(p, label) ==
    /\ Resumes(p, label)
    /\ ext' = IF ext[loc[p].id].st = "new" THEN SetSt(ext, loc[p].id, "sent") ELSE ext
    /\ Step(p, "ret")
    /\ UNCHANGED <<docVars, stk, loc, booting, jobs, wire, crashes, clean, faults, fired>>

\* --------------------------------------------------------- OUT_TX_CONFIRMED
OutTxConfirmed(p) == StartOn(p, "OUT_TX_CONFIRMED", "outTxId", "otc_dep")

\* getDeposit(outTxId): the deposit is credited (state "1" or "2") ...
OtcDep(p) ==
    /\ Resumes(p, "otc_dep")
    /\ StOf(loc[p].id) = "ok"
    /\ state' = [state EXCEPT !.depositId = Some(loc[p].id)]
    /\ CallSetState(p, "DEPOSIT_RECEIVED", "ret", loc[p])
    /\ UNCHANGED <<disk, archive, visited, stk, booting, ext, jobs, wire, crashes, clean, faults, fired>>

\* ... or not known to the CEX yet (null, or another state).
OtcDepNone(p) ==
    /\ Resumes(p, "otc_dep")
    /\ Step(p, "ret")
    /\ UNCHANGED <<docVars, stk, loc, booting, ext, jobs, wire, crashes, clean, faults, fired>>

\* ... or credited in an answer that carries no depId: the field is copied
\* unchecked, so depositId is undefined when setState is called.
OtcDepShort(p) ==
    /\ Resumes(p, "otc_dep")
    /\ StOf(loc[p].id) = "ok"
    /\ state' = [state EXCEPT !.depositId = None]
    /\ CallSetState(p, "DEPOSIT_RECEIVED", "ret", loc[p])
    /\ Fault
    /\ UNCHANGED <<disk, archive, visited, stk, booting, ext, jobs, wire, crashes>>

\* --------------------------------------------------------- DEPOSIT_RECEIVED
DepositReceived(p) ==
    /\ Running(p, "dispatch")
    /\ Handler(p) = "DEPOSIT_RECEIVED"
    /\ Mint(p, "ord", "clientOrderId", "TRADE_EXECUTING", "dr_trade_go")
    /\ UNCHANGED <<disk, archive, visited, stk, booting, jobs, wire, crashes, clean, faults, fired>>

\* After setState(TRADE_EXECUTING): marketTrade(srcToken, dstToken, amountOut,
\* clientOrderId) inside try; it rejects at once on a job without these.
DrTradeGo(p) ==
    /\ Running(p, "dr_trade_go")
    /\ IF Has(state, "srcToken") /\ Has(state, "dstToken") /\ Has(state, "amountOut")
       THEN Await(p, "dr_trade")
       ELSE Step(p, "ret")
    /\ UNCHANGED <<docVars, stk, loc, booting, ext, jobs, wire, crashes, clean, faults, fired>>

DrTrade(p) == Submitted(p, "dr_trade")
\* ---------------------------------------------------------- TRADE_EXECUTING
TradeExecuting(p) == StartOn(p, "TRADE_EXECUTING", "clientOrderId", "te_get")

\* The answer of getTrade as it would be handled if an order still live were
\* given up like a canceled one.
TeGetLiveRetries(p) ==
    /\ Resumes(p, "te_get")
    /\ CASE StOf(loc[p].id) \in {"new", "bad", "sent"} ->
              Retry(p, "DEPOSIT_RECEIVED", "ret")
         [] OTHER ->
              /\ state' = [state EXCEPT !.orderId = Some(loc[p].id), !.price = Some("avgPx")]
              /\ Await(p, "te_bal")
              /\ loc' = [loc EXCEPT ![p].obj = state.job]
    /\ UNCHANGED <<disk, archive, visited, stk, booting, ext, jobs, wire, crashes, clean, faults, fired>>

\* getTrade(srcToken, dstToken, clientOrderId) answers: order not found
\* (OKXError 51603 / 52907) or canceled: RETRYING(DEPOSIT_RECEIVED); live:
\* nothing, check() goes on to the following ifs; filled: orderId and price
\* are recorded and "this.state.amountIn = await getBalance(dstToken)" starts.
TeGet(p) ==
    /\ Resumes(p, "te_get")
    /\ CASE StOf(loc[p].id) \in {"new", "bad"} ->
              Retry(p, "DEPOSIT_RECEIVED", "ret")
         [] StOf(loc[p].id) = "sent" ->
              /\ Step(p, "dispatch")
              /\ loc' = [loc EXCEPT ![p].from = RebalancingState.TRADE_EXECUTING]
              /\ UNCHANGED state
         [] OTHER ->
              /\ state' = [state EXCEPT !.orderId = Some(loc[p].id), !.price = Some("avgPx")]
              /\ Await(p, "te_bal")
              /\ loc' = [loc EXCEPT ![p].obj = state.job]
    /\ UNCHANGED <<disk, archive, visited, stk, booting, ext, jobs, wire, crashes, clean, faults, fired>>

\* getBalance returns: the assignment writes to the job object that was
\* this.state when the call was made, then setState(TRADE_EXECUTED).
TeBal(p) ==
    /\ Resumes(p, "te_bal")
    /\ \E a \in AmountIns :
         state' = IF state.job = loc[p].obj THEN [state EXCEPT !.amountIn = Some(a)] ELSE state
    /\ CallSetState(p, "TRADE_EXECUTED", "ret", loc[p])
    /\ UNCHANGED <<disk, archive, visited, stk, booting, ext, jobs, wire, crashes, clean, faults, fired>>

\* ----------------------------------------------------------- TRADE_EXECUTED
TradeExecuted(p) ==
    /\ Running(p, "dispatch")
    /\ Handler(p) = "TRADE_EXECUTED"
    /\ Mint(p, "xfer", "clientTransferId", "FUNDS_TRANSFERING", "tx_xfer_go")
    /\ UNCHANGED <<disk, archive, visited, stk, booting, jobs, wire, crashes, clean, faults, fired>>

\* After setState(FUNDS_TRANSFERING): fundsTransfer(dstToken, "trading",
\* "funding", amountIn, transferId) inside try.
TxXferGo(p) ==
    /\ Running(p, "tx_xfer_go")
    /\ IF Has(state, "dstToken") /\ Has(state, "amountIn")
       THEN Await(p, "tx_xfer")
       ELSE Step(p, "ret")
    /\ UNCHANGED <<docVars, stk, loc, booting, ext, jobs, wire, crashes, clean, faults, fired>>

TxXfer(p) == Submitted(p, "tx_xfer")
\* -------------------------------------------------------- FUNDS_TRANSFERING
FundsTransfering(p) == StartOn(p, "FUNDS_TRANSFERING", "clientTransferId", "ftg_get")

\* getFundsTransfer(clientTransferId) answers, inside the try block: missing
\* or failed: RETRYING(TRADE_EXECUTED); success: transferId, FUNDS_TRANSFERED.
FtgGet(p) ==
    /\ Resumes(p, "ftg_get")
    /\ CASE StOf(loc[p].id) \in {"new", "bad"} ->
              Retry(p, "TRADE_EXECUTED", "ftg_try")
         [] StOf(loc[p].id) = "sent" ->
              Step(p, "ret") /\ UNCHANGED <<state, loc>>
         [] OTHER ->
              /\ state' = [state EXCEPT !.transferId = Some(loc[p].id)]
              /\ CallSetState(p, "FUNDS_TRANSFERED", "ftg_try", loc[p])
    /\ UNCHANGED <<disk, archive, visited, stk, booting, ext, jobs, wire, crashes, clean, faults, fired>>

\* The end of the try block after its setState has returned.
FtgTryEnd(p) ==
    /\ Running(p, "ftg_try")
    /\ Step(p, "ret")
    /\ UNCHANGED <<docVars, stk, loc, booting, ext, jobs, wire, crashes, clean, faults, fired>>

\* --------------------------------------------------------- FUNDS_TRANSFERED
\* getWithdrawalFee(currency, chain, amount) of the OKX client: for BTC-LN
\* 1000 + amount/1000, otherwise the currency's maxFee.
getWithdrawalFee(currency, amount, maxFee) ==
    IF currency = "BTC-LN" THEN 1000 + (amount \div 1000) ELSE maxFee

\* if(state===FUNDS_TRANSFERED): "this.state.withdrawalFee = await
\* getWithdrawalFee(dstToken, chain, amountIn)"; n keeps the amountIn passed
\* (-1: undefined).
FundsTransfered(p) ==
    /\ Running(p, "dispatch")
    /\ Handler(p) = "FUNDS_TRANSFERED"
    /\ Await(p, "ftd_fee")
    /\ loc' = [loc EXCEPT ![p].k = Token(state.dstToken), ![p].obj = state.job,
                          ![p].n = IF Has(state, "amountIn") THEN state.amountIn[1] ELSE -1]
    /\ UNCHANGED <<docVars, stk, booting, ext, jobs, wire, crashes, clean, faults, fired>>

\* The withdrawal id is minted and WITHDRAWING entered, with the receiving
\* address `addr` (an invoice id for BTC-LN, 0 for the wallet's own address).
EnterWithdrawing(p, s, e, addr) ==
    /\ Len(e) < MaxExt
    /\ ext' = Append(e, NewExt("wd"))
    /\ state' = [s EXCEPT !.receivingAddress = Some(addr),
                          !.withdrawalId = Some(Len(e) + 1),
                          !.cooldown = Some(cooldownTime)]
    /\ CallSetState(p, "WITHDRAWING", "ftd_wd_go", [loc[p] EXCEPT !.id = Len(e) + 1])

\* The fee arrives (the BTC-LN formula rejects an undefined amount).  A
\* smart-chain destination needs no further call (swapContract.getAddress());
\* BTC awaits getChainAddresses, BTC-LN createInvoice for amountIn -
\* withdrawalFee.
FtdFee(p) ==
    /\ Resumes(p, "ftd_fee")
    /\ IF loc[p].k = "BTC-LN" /\ loc[p].n < 0
       THEN Step(p, "throw") /\ UNCHANGED <<state, loc, ext>>
       ELSE \E maxFee \in Fees :
         LET fee == getWithdrawalFee(loc[p].k, loc[p].n, maxFee)
             s == IF state.job = loc[p].obj
                  THEN [state EXCEPT !.withdrawalFee = Some(fee)] ELSE state
         IN CASE s.dstToken = Some("BTC") ->
                   state' = s /\ Await(p, "ftd_addr") /\ UNCHANGED <<loc, ext>>
              [] s.dstToken = Some("BTC-LN") ->
                   /\ state' = s
                   /\ IF Has(s, "amountIn") /\ Has(s, "withdrawalFee")
                      THEN Await(p, "ftd_addr") ELSE Step(p, "throw")
                   /\ UNCHANGED <<loc, ext>>
              [] OTHER -> EnterWithdrawing(p, s, ext, 0)
    /\ UNCHANGED <<disk, archive, visited, stk, booting, jobs, wire, crashes, clean, faults, fired>>

\* lncli.getChainAddresses (BTC) or lncli.createInvoice (BTC-LN) returns.
FtdAddr(p) ==
    /\ Resumes(p, "ftd_addr")
    /\ IF state.dstToken = Some("BTC-LN")
       THEN EnterWithdrawing(p, state, Append(ext, NewExt("in")), Len(ext) + 1)
       ELSE EnterWithdrawing(p, state, ext, 0)
    /\ UNCHANGED <<disk, archive, visited, stk, booting, jobs, wire, crashes, clean, faults, fired>>

\* After setState(WITHDRAWING): withdraw(dstToken, chain, receivingAddress,
\* withdrawalId, withdrawalFee, amountIn.sub(withdrawalFee)) inside try; the
\* subtraction throws a TypeError on a job without these (caught, logged).
FtdWdGo(p) ==
    /\ Running(p, "ftd_wd_go")
    /\ IF Has(state, "amountIn") /\ Has(state, "withdrawalFee")
       THEN /\ Await(p, "ftd_wd")
            /\ loc' = [loc EXCEPT ![p].k = Token(state.dstToken),
                                  ![p].n = IF Has(state, "receivingAddress")
                                           THEN state.receivingAddress[1] ELSE 0,
                                  ![p].amount = state.amountIn[1] - state.withdrawalFee[1]]
       ELSE Step(p, "ret") /\ UNCHANGED loc
    /\ UNCHANGED <<docVars, stk, booting, ext, jobs, wire, crashes, clean, faults, fired>>

\* okxV5Api.withdraw reaches the CEX.  Only the on-chain / smart-chain
\* request carries clientId: withdrawalId; the BTC-LN request carries the
\* invoice alone, so no withdrawal is recorded under withdrawalId.  amt is
\* toDecimal(amount, currencyDecimals[currency]).
withdraw(e, currency, address, withdrawalId, amount) ==
    IF currency = "BTC-LN"
    THEN IF address # 0 /\ e[address].st = "new" THEN SetSt(e, address, "sent") ELSE e
    ELSE IF e[withdrawalId].st = "new"
         THEN [e EXCEPT ![withdrawalId].st = "sent",
                        ![withdrawalId].amt = toDecimal(amount, currencyDecimals[currency])]
         ELSE e

FtdWd(p) ==
    /\ Resumes(p, "ftd_wd")
    /\ ext' = withdraw(ext, loc[p].k, loc[p].n, loc[p].id, loc[p].amount)
    /\ Step(p, "ret")
    /\ UNCHANGED <<docVars, stk, loc, booting, jobs, wire, crashes, clean, faults, fired>>

\* withdraw throws an OKXError: RETRYING(FUNDS_TRANSFERED).
FtdWdOkxError(p) ==
    /\ Resumes(p, "ftd_wd")
    /\ Retry(p, "FUNDS_TRANSFERED", "ret")
    /\ Fault
    /\ UNCHANGED <<disk, archive, visited, stk, booting, ext, jobs, wire, crashes>>

\* ------------------------------------------------------------- WITHDRAWING
Withdrawing(p) == StartOn(p, "WITHDRAWING", "withdrawalId", "wg_get")

\* getWithdrawal(withdrawalId) answers: null or -1/-2/-3:
\* RETRYING(FUNDS_TRANSFERED); "2": inTxId, WITHDRAWAL_SENT; else nothing.
WgGet(p) ==
    /\ Resumes(p, "wg_get")
    /\ CASE StOf(loc[p].id) \in {"new", "bad"} ->
              Retry(p, "FUNDS_TRANSFERED", "ret")
         [] StOf(loc[p].id) = "sent" ->
              Step(p, "ret") /\ UNCHANGED <<state, loc>>
         [] OTHER ->
              /\ state' = [state EXCEPT !.inTxId = Some(ext[loc[p].id].out)]
              /\ CallSetState(p, "WITHDRAWAL_SENT", "ret", loc[p])
    /\ UNCHANGED <<disk, archive, visited, stk, booting, ext, jobs, wire, crashes, clean, faults, fired>>

\* ---------------------------------------------------------- WITHDRAWAL_SENT
\* The three rails poll the same way: bitcoinRpc.getTransaction(inTxId),
\* lncli.getInvoice({id: inTxId}) or swapContract.getTxIdStatus(inTxId); k
\* keeps the rail chosen.
WithdrawalSent(p) == StartOn(p, "WITHDRAWAL_SENT", "inTxId", "ws_get")

\* The lookup as it would be if a transfer still unconfirmed counted as
\* confirmed.
WsGetUnconfirmed(p) ==
    /\ Resumes(p, "ws_get")
    /\ LET st == StOf(loc[p].id)
           missing == IF loc[p].k = "BTC" THEN st \in {"new", "bad"} ELSE st = "bad"
       IN CASE st \in {"ok", "sent"} ->
                 CallSetState(p, "IN_TX_CONFIRMED", "ret", loc[p]) /\ UNCHANGED state
            [] missing -> Retry(p, "WITHDRAWING", "ret")
            [] OTHER -> Step(p, "ret") /\ UNCHANGED <<state, loc>>
    /\ UNCHANGED <<disk, archive, visited, stk, booting, ext, jobs, wire, crashes, clean, faults, fired>>

\* BTC: null -> RETRYING(WITHDRAWING), >= 1 confirmation -> IN_TX_CONFIRMED.
\* BTC-LN: is_confirmed -> IN_TX_CONFIRMED, is_canceled -> RETRYING.
\* Smart chain: success -> IN_TX_CONFIRMED, reverted -> RETRYING.
WsGet(p) ==
    /\ Resumes(p, "ws_get")
    /\ LET st == StOf(loc[p].id)
           missing == IF loc[p].k = "BTC" THEN st \in {"new", "bad"} ELSE st = "bad"
       IN CASE st = "ok" -> CallSetState(p, "IN_TX_CONFIRMED", "ret", loc[p]) /\ UNCHANGED state
            [] missing -> Retry(p, "WITHDRAWING", "ret")
            [] OTHER -> Step(p, "ret") /\ UNCHANGED <<state, loc>>
    /\ UNCHANGED <<disk, archive, visited, stk, booting, ext, jobs, wire, crashes, clean, faults, fired>>

\* ---------------------------------------------------------- IN_TX_CONFIRMED
\* The handler as it would be if it deposited amountIn, fee included.
InTxConfirmedGross(p) ==
    /\ Running(p, "dispatch")
    /\ Handler(p) = "IN_TX_CONFIRMED"
    /\ IF IsBtc(state.dstToken)
       THEN CallSetState(p, "FINISHED", "ret", loc[p])
       ELSE IF Has(state, "amountIn") /\ Has(state, "withdrawalFee")
       THEN /\ Await(p, "sac_txs")
            /\ loc' = [loc EXCEPT ![p].k = "scd", ![p].amount = state.amountIn[1]]
       ELSE Step(p, "throw") /\ UNCHANGED loc
    /\ UNCHANGED <<docVars, stk, booting, ext, jobs, wire, crashes, clean, faults, fired>>

\* The handler as it would be if a smart-chain destination finished without
\* the deposit.
InTxConfirmedSkipsDeposit(p) ==
    /\ Running(p, "dispatch")
    /\ Handler(p) = "IN_TX_CONFIRMED"
    /\ CallSetState(p, "FINISHED", "ret", loc[p])
    /\ UNCHANGED <<docVars, stk, booting, ext, jobs, wire, crashes, clean, faults, fired>>

\* A smart-chain destination deposits amountIn - withdrawalFee back into the
\* contract (txsDeposit, sendAndConfirm); BTC and BTC-LN finish.
InTxConfirmed(p) ==
    /\ Running(p, "dispatch")
    /\ Handler(p) = "IN_TX_CONFIRMED"
    /\ IF IsBtc(state.dstToken)
       THEN CallSetState(p, "FINISHED", "ret", loc[p])
       ELSE IF Has(state, "amountIn") /\ Has(state, "withdrawalFee")
       THEN /\ Await(p, "sac_txs")
            /\ loc' = [loc EXCEPT ![p].k = "scd",
                                    ![p].amount = state.amountIn[1] - state.withdrawalFee[1]]
       ELSE Step(p, "throw") /\ UNCHANGED loc
    /\ UNCHANGED <<docVars, stk, booting, ext, jobs, wire, crashes, clean, faults, fired>>

\* if(state===SC_DEPOSITING)
ScDepositing(p) ==
    /\ Running(p, "dispatch")
    /\ Handler(p) = "SC_DEPOSITING"
    /\ StartScan(p, "scd")
    /\ UNCHANGED <<docVars, stk, booting, ext, jobs, wire, crashes, clean, faults, fired>>

\* if(state===SC_DEPOSITED): setState(FINISHED), then the next if.
ScDeposited(p) ==
    /\ Running(p, "dispatch")
    /\ Handler(p) = "SC_DEPOSITED"
    /\ CallSetState(p, "FINISHED", "fin_test", loc[p])
    /\ UNCHANGED <<docVars, stk, booting, ext, jobs, wire, crashes, clean, faults, fired>>

FinTest(p) ==
    /\ Running(p, "fin_test")
    /\ Step(p, "dispatch")
    /\ loc' = [loc EXCEPT ![p].from = RebalancingState.SC_DEPOSITED]
    /\ UNCHANGED <<docVars, stk, booting, ext, jobs, wire, crashes, clean, faults, fired>>

\* ------------------------------------------------------------------ FINISHED
\* if(state===FINISHED): archiveState() ...
Finished(p) ==
    /\ Running(p, "dispatch")
    /\ Handler(p) = "FINISHED"
    /\ Await(p, "fin_arch")
    /\ UNCHANGED <<docVars, stk, loc, booting, ext, jobs, wire, crashes, clean, faults, fired>>

\* archiveState(): mkdir done; the archive copy is written ...
archiveState(p) ==
    /\ Resumes(p, "fin_arch")
    /\ archive' = Append(archive, serializeState(state))
    /\ Await(p, "fin_rm")
    /\ UNCHANGED <<state, disk, visited, stk, loc, booting, ext, jobs, wire, crashes, clean, faults, fired>>

\* archiveState followed by nothing: the live document is removed and the
\* finished job stays in memory.
FinRmKeepsJob(p) ==
    /\ Resumes(p, "fin_rm")
    /\ IF disk.state = "nofile"
       THEN Step(p, "throw") /\ UNCHANGED disk
       ELSE disk' = NoFile /\ Step(p, "ret")
    /\ UNCHANGED <<state, archive, visited, stk, loc, booting, ext, jobs, wire, crashes, clean, faults, fired>>

\* ... the live document is removed and this.state = {state: null}.
\* fs.rm rejects when the file is gone already.
FinRm(p) ==
    /\ Resumes(p, "fin_rm")
    /\ IF disk.state = "nofile"
       THEN Step(p, "throw") /\ UNCHANGED <<state, disk>>
       ELSE /\ disk' = NoFile
            /\ state' = NullState
            /\ Step(p, "ret")
    /\ UNCHANGED <<archive, visited, stk, loc, booting, ext, jobs, wire, crashes, clean, faults, fired>>

\* ------------------------------------------------------------ balance monitor
\* The answers to one run's balance calls and the plugin's two settings:
\* those of the run being examined, or else BTC only, USDC only, or both in
\* balance.
PoolAnswers ==
    IF wire.at = "pools" THEN {wire}
    ELSE {[balanceUSDCinBTC |-> sc, balanceOnchain |-> 52 - sc, usableBalanceUSDC |-> sc,
           usdcPerSat |-> 1, rebalanceThresholdPPM |-> 100000,
           rebalanceAmountPPM |-> 500000] : sc \in {0, 26, 52}}

\* The callback's decision as it would be if a difference equal to the
\* threshold started a rebalance.
checkPoolsAtThreshold(b) ==
    LET sumOnChainAndUSDC == b.balanceUSDCinBTC + b.balanceOnchain
        ppmUSDC == (b.balanceUSDCinBTC * 1000000) \div sumOnChainAndUSDC
        ppmBTC == (b.balanceOnchain * 1000000) \div sumOnChainAndUSDC
        diffPPM == ppmUSDC - ppmBTC
        abs == IF diffPPM < 0 THEN -diffPPM ELSE diffPPM
        \* x.mul(a).div(new BN(1000000)), the product taken in parts of
        \* three and six digits
        mulDiv(x, a) ==
            LET high == x \div 1000000
                mid == (x % 1000000) \div 1000
                low == x % 1000
                aHigh == a \div 1000
                aLow == a % 1000
            IN high * a + mid * aHigh
                   + ((mid * aLow + low * aHigh) * 1000 + low * aLow) \div 1000000
        btcValueToSwap ==
            mulDiv(sumOnChainAndUSDC * abs, b.rebalanceAmountPPM) \div 1000000
        usdcAmount == btcValueToSwap * b.usdcPerSat
    IN IF sumOnChainAndUSDC = 0 THEN <<>>
       ELSE IF ~(abs >= b.rebalanceThresholdPPM) THEN <<>>
       ELSE IF diffPPM < 0
       THEN <<[srcToken |-> "BTC", dstToken |-> "USDC", amountOut |-> btcValueToSwap]>>
       ELSE IF usdcAmount > b.usableBalanceUSDC THEN <<>>
       ELSE <<[srcToken |-> "USDC", dstToken |-> "BTC", amountOut |-> usdcAmount]>>

\* The decision of the callback ("Check pools") from the balances b: <<>>
\* when it seeds nothing (the division by a zero sum throws), else the
\* fields it writes into the new this.state.  getFromBtcSwapAmount is the
\* price b.usdcPerSat.
checkPools(b) ==
    LET sumOnChainAndUSDC == b.balanceUSDCinBTC + b.balanceOnchain
        ppmUSDC == (b.balanceUSDCinBTC * 1000000) \div sumOnChainAndUSDC
        ppmBTC == (b.balanceOnchain * 1000000) \div sumOnChainAndUSDC
        diffPPM == ppmUSDC - ppmBTC
        abs == IF diffPPM < 0 THEN -diffPPM ELSE diffPPM
        \* x.mul(a).div(new BN(1000000)), the product taken in parts of
        \* three and six digits
        mulDiv(x, a) ==
            LET high == x \div 1000000
                mid == (x % 1000000) \div 1000
                low == x % 1000
                aHigh == a \div 1000
                aLow == a % 1000
            IN high * a + mid * aHigh
                   + ((mid * aLow + low * aHigh) * 1000 + low * aLow) \div 1000000
        btcValueToSwap ==
            mulDiv(sumOnChainAndUSDC * abs, b.rebalanceAmountPPM) \div 1000000
        usdcAmount == btcValueToSwap * b.usdcPerSat
    IN IF sumOnChainAndUSDC = 0 THEN <<>>
       ELSE IF ~(abs > b.rebalanceThresholdPPM) THEN <<>>
       ELSE IF diffPPM < 0
       THEN <<[srcToken |-> "BTC", dstToken |-> "USDC", amountOut |-> btcValueToSwap]>>
       ELSE IF usdcAmount > b.usableBalanceUSDC THEN <<>>
       ELSE <<[srcToken |-> "USDC", dstToken |-> "BTC", amountOut |-> usdcAmount]>>

\* The setInterval callback starts: the idle guard passes and the balances
\* are requested.  (While a job is active the callback returns at once.)
MonitorFire(p) ==
    /\ p \in Monitors
    /\ Resumes(p, "m_off")
    /\ ~booting
    /\ state.state \in {"undefined", "null", "IDLE"}
    /\ Await(p, "m_bal")
    /\ loc' = [loc EXCEPT ![p] = Loc0]
    /\ UNCHANGED <<docVars, stk, booting, ext, jobs, wire, crashes, clean, faults, fired>>

\* The balances are within the threshold or the USDC balance is too small:
\* the callback ends.  With nothing on either side the division by
\* sumOnChainAndUSDC throws (bn.js asserts a non-zero divisor), and nothing
\* in the callback catches it.
MonitorSkip(p) ==
    /\ Resumes(p, "m_bal")
    /\ \E b \in PoolAnswers :
         /\ checkPools(b) = <<>>
         /\ IF b.balanceUSDCinBTC + b.balanceOnchain = 0
            THEN Step(p, "throw") ELSE Await(p, "m_off")
    /\ UNCHANGED <<docVars, stk, loc, booting, ext, jobs, wire, crashes, clean, faults, fired>>

\* The threshold is exceeded: BTC -> USDC when there is more BTC, USDC -> BTC
\* otherwise; then setState(TRIGGERED).
MonitorSeed(p) ==
    /\ Resumes(p, "m_bal")
    /\ jobs < MaxJobs
    /\ jobs' = jobs + 1
    /\ \E b \in PoolAnswers :
         /\ checkPools(b) # <<>>
         /\ state' = Seed(checkPools(b)[1].srcToken, checkPools(b)[1].dstToken,
                          checkPools(b)[1].amountOut, jobs + 1)
    /\ visited' = {}
    /\ CallSetState(p, "TRIGGERED", "ret", loc[p])
    /\ UNCHANGED <<disk, archive, stk, booting, ext, crashes, clean, faults, fired, wire>>

\* -------------------------------------------------------- onBeforeTxReplace
Range(q) == {q[i] : i \in DOMAIN q}

\* The callback as it would be if it replaced the old candidate by the new
\* one instead of adding the new one.
onBeforeTxReplaceDropsOld(old) ==
    /\ run = NoProc
    /\ old \in DOMAIN ext
    /\ ext[old].kind \in {"scw", "sct", "scd"}
    /\ ext[old].st = "sent"
    /\ Len(ext) < MaxExt
    /\ Cardinality({i \in DOMAIN ext : ext[i].st = "replaced"}) < MaxReplace
    /\ ext' = Append(SetSt(ext, old, "replaced"),
                     [NewExt(ext[old].kind) EXCEPT !.st = "sent", !.job = ext[old].job,
                                                   !.amount = ext[old].amount])
    /\ LET f == MapField(ext[old].kind) IN
       IF /\ state.state = BroadcastState(ext[old].kind)
          /\ Has(state, f)
          /\ old \in Range(state[f][1])
       THEN /\ state' = [state EXCEPT
                            ![f] = Some([i \in DOMAIN @[1] |->
                                            IF @[1][i] = old THEN NextId ELSE @[1][i]]),
                            !.cooldown = Some(cooldownTime)]
            /\ disk' = saveState(state')
       ELSE UNCHANGED <<state, disk>>
    /\ UNCHANGED <<archive, visited, procVars, booting, jobs, wire, crashes, clean, faults, fired>>

\* "if(this.state.state===...)" at the head of the callback reads a field
\* of this.state: a TypeError when loadState left this.state unassigned.
TxReplaceThrows == state.state = "undefined"

\* The smart-chain library replaces the pending transaction old by a new
\* one and calls the callback first: when the job is in the broadcast state
\* whose candidate map holds old, the new id is added, the cooldown set and
\* the document saved.  Without a job object the callback throws.
onBeforeTxReplace(old) ==
    /\ run = NoProc
    /\ old \in DOMAIN ext
    /\ ext[old].kind \in {"scw", "sct", "scd"}
    /\ ext[old].st = "sent"
    /\ Len(ext) < MaxExt
    /\ Cardinality({i \in DOMAIN ext : ext[i].st = "replaced"}) < MaxReplace
    /\ ext' = Append(SetSt(ext, old, "replaced"),
                     [NewExt(ext[old].kind) EXCEPT !.st = "sent", !.job = ext[old].job,
                                                   !.amount = ext[old].amount])
    /\ LET f == MapField(ext[old].kind) IN
       IF /\ ~TxReplaceThrows
          /\ state.state = BroadcastState(ext[old].kind)
          /\ Has(state, f)
          /\ old \in Range(state[f][1])
       THEN /\ state' = [state EXCEPT ![f] = Some(Append(@[1], NextId)),
                                      !.cooldown = Some(cooldownTime)]
            /\ disk' = saveState(state')
       ELSE UNCHANGED <<state, disk>>
    /\ UNCHANGED <<archive, visited, procVars, booting, jobs, wire, crashes, clean, faults, fired>>

\* --------------------------------------------------------------- the world
\* One unit of time passes.  A file write takes less than a unit: no unit
\* passes while fs.writeFile is awaited.
Elapse(d) ==
    [d EXCEPT !.cooldown = IF @ = None THEN @ ELSE Some(IF @[1] > 0 THEN @[1] - 1 ELSE 0),
              !.retryAt = IF @ = None THEN @ ELSE Some(IF @[1] >= 0 THEN @[1] - 1 ELSE -1)]

Tick ==
    /\ run = NoProc
    /\ \A p \in Procs : pc[p] # "saving"
    /\ state' = Elapse(state)
    /\ disk' = Elapse(disk)
    /\ loc' = [p \in Procs |-> [loc[p] EXCEPT !.txt = Elapse(@)]]
    /\ stk' = stk
    /\ UNCHANGED <<archive, visited, pc, run, booting, ext, jobs, wire, crashes, clean, faults, fired>>

\* An object in flight settles: a payment or transaction confirms or fails,
\* an order fills or is canceled, a transfer succeeds or fails, a withdrawal
\* is sent out (its payout appears, unconfirmed) or fails.
Resolve(i) ==
    /\ run = NoProc
    /\ i \in DOMAIN ext
    /\ ext[i].st = "sent"
    /\ \/ /\ ext[i].kind # "wd"
          /\ ext' = SetSt(ext, i, "ok")
          /\ UNCHANGED <<clean, faults, fired>>
       \/ /\ ext[i].kind = "wd"
          /\ Len(ext) < MaxExt
          /\ ext' = Append([ext EXCEPT ![i].st = "ok", ![i].out = NextId],
                           [NewExt("in") EXCEPT !.st = "sent", !.job = ext[i].job])
          /\ UNCHANGED <<clean, faults, fired>>
       \/ /\ ext' = SetSt(ext, i, "bad")
          /\ Fault
    /\ UNCHANGED <<docVars, procVars, booting, jobs, wire, crashes>>

\* The process dies and is started again: onEnable runs loadState and the
\* first check before the monitor's setInterval.  A write in progress leaves
\* the old text, the new text or a torn file (which loadState cannot parse).
Crash ==
    /\ run = NoProc
    /\ crashes < MaxCrashes
    /\ crashes' = crashes + 1
    /\ disk' \in {disk} \cup UNION {{loc[p].txt, NoFile} : p \in {q \in Procs : pc[q] = "saving"}}
    /\ state' = loadState(disk')
    /\ ext' = MarkSaved(ext, disk')
    /\ pc' = [p \in Procs |-> IF p = "timer" THEN "t_wait" ELSE "m_off"]
    /\ stk' = [p \in Procs |-> <<>>]
    /\ loc' = [p \in Procs |-> Loc0]
    /\ booting' = TRUE
    /\ visited' = IF disk' # disk /\ disk'.state \in States THEN visited \cup {disk'.state} ELSE visited
    /\ UNCHANGED <<archive, run, jobs, wire, clean, faults, fired>>

\* ---------------------------------------------------------------------- Next
\* setState, check and the frames of check().
CoreSteps(p) ==
    \/ setState(p) \/ Saved(p) \/ Return(p) \/ Throw(p) \/ check(p) \/ NoHandler(p)

\* The TRIGGERED action and sendAndConfirm.
TriggeredSteps(p) ==
    \/ Triggered(p) \/ TrigAddr(p) \/ TrigAddrThrows(p)
    \/ TrigPayGo(p) \/ Delivered(p) \/ TrigPayOk(p) \/ TrigPayFails(p)
    \/ TrigFund(p) \/ TrigSign(p) \/ TrigBcastGo(p) \/ TrigBcastOk(p) \/ TrigBcastFails(p)
    \/ SacTxs(p) \/ SacTxsThrows(p) \/ SacCallback(p) \/ SacSendGo(p)
    \/ SacSend(p) \/ SacSendThrows(p)

\* The source leg: TRIGGERED to the poll of OUT_TX_CONFIRMED that finds no
\* deposit.
SourceSteps(p) ==
    \/ TriggeredSteps(p)
    \/ Scan(p) \/ ScanThrows(p)
    \/ ScWithdrawing(p) \/ ScWithdrawalConfirmed(p)
    \/ OutTx(p) \/ OutTxBtc(p) \/ OutTxBtcThrows(p) \/ OutTxLn(p) \/ OutTxLnFails(p)
    \/ OutTxConfirmed(p) \/ OtcDepNone(p) \/ Throws(p, "otc_dep")

\* The CEX leg and the destination leg: from the credited deposit to the
\* archived job.
CexSteps(p) ==
    \/ OtcDep(p) \/ OtcDepShort(p)
    \/ DepositReceived(p) \/ DrTradeGo(p) \/ DrTrade(p) \/ Swallowed(p, "dr_trade")
    \/ TradeExecuting(p) \/ TeGet(p) \/ Swallowed(p, "te_get") \/ TeBal(p) \/ Throws(p, "te_bal")
    \/ TradeExecuted(p) \/ TxXferGo(p) \/ TxXfer(p) \/ Swallowed(p, "tx_xfer")
    \/ FundsTransfering(p) \/ FtgGet(p) \/ Swallowed(p, "ftg_get") \/ FtgTryEnd(p)
    \/ FundsTransfered(p) \/ FtdFee(p) \/ Throws(p, "ftd_fee") \/ FtdAddr(p) \/ Throws(p, "ftd_addr")
    \/ FtdWdGo(p) \/ FtdWd(p) \/ FtdWdOkxError(p)
    \/ Withdrawing(p) \/ WgGet(p) \/ Throws(p, "wg_get")
    \/ WithdrawalSent(p) \/ WsGet(p) \/ Throws(p, "ws_get")
    \/ InTxConfirmed(p) \/ ScDepositing(p) \/ ScDeposited(p) \/ FinTest(p)
    \/ Finished(p) \/ archiveState(p) \/ FinRm(p)

MonitorSteps(p) == MonitorFire(p) \/ MonitorSkip(p) \/ MonitorSeed(p)

World == \E i \in 1..MaxExt : onBeforeTxReplace(i) \/ Resolve(i)

\* The whole plugin.
Next ==
    \/ TimerFire
    \/ \E p \in Procs : CoreSteps(p) \/ SourceSteps(p) \/ CexSteps(p) \/ MonitorSteps(p)
    \/ World
    \/ Tick
    \/ Crash

Spec == Init /\ [][Next]_vars

\* The engine alone, started on a persisted document: the periodic checker
\* takes one job through its whole life, with failures and a crash; the
\* balance monitor stays within its thresholds.
SpecEngine ==
    /\ InitEngine
    /\ [][\/ TimerFire
          \/ CoreSteps("timer") \/ SourceSteps("timer") \/ CexSteps("timer")
          \/ World
          \/ Tick
          \/ Crash]_vars

\* The checker and one monitor run together, during the first MaxFires
\* firings of the timer and while the CEX has not yet credited any deposit:
\* jobs are seeded and their source leg runs.
SpecOverlap ==
    /\ Init
    /\ [][\/ TimerFireCounted
          \/ \E p \in {"timer", "mon1"} :
                CoreSteps(p) \/ SourceSteps(p) \/ MonitorSteps(p)
          \/ World
          \/ Tick]_vars

\* Two monitor runs together, between the first check of onEnable and the
\* next firing of the timer: jobs are seeded and their TRIGGERED action runs.
SpecMonitor ==
    /\ Init
    /\ [][\/ booting /\ TimerFire
          \/ \E p \in Procs : CoreSteps(p) \/ TriggeredSteps(p) \/ MonitorSteps(p)
          \/ World
          \/ Tick]_vars

\* The happy path: the engine alone runs a job the balance monitor seeded
\* (on-chain BTC <-> USDC), every adapter call succeeds, no transaction is
\* replaced and the process does not crash.
InitLive ==
    \E d \in {e \in EngineDocs : e.srcToken # Some("BTC-LN") /\ e.dstToken # Some("BTC-LN")} :
        Start(d) /\ wire = NoWire

\* An object in flight settles successfully.
Settle == \E i \in 1..MaxExt : Resolve(i) /\ faults' = faults

\* The steps of check() that occur when every call succeeds.
LiveSteps(p) ==
    \/ setState(p) \/ Saved(p) \/ Return(p) \/ check(p) \/ NoHandler(p)
    \/ Triggered(p) \/ TrigAddr(p)
    \/ TrigFund(p) /\ faults' = faults
    \/ TrigSign(p) /\ faults' = faults
    \/ TrigBcastGo(p) \/ Delivered(p) \/ TrigBcastOk(p)
    \/ SacTxs(p) \/ SacCallback(p) \/ SacSendGo(p) \/ SacSend(p)
    \/ Scan(p) \/ ScWithdrawing(p) \/ ScWithdrawalConfirmed(p)
    \/ OutTx(p) \/ OutTxBtc(p)
    \/ OutTxConfirmed(p) \/ OtcDepNone(p) \/ OtcDep(p)
    \/ DepositReceived(p) \/ DrTradeGo(p) \/ DrTrade(p)
    \/ TradeExecuting(p) \/ TeGet(p) \/ TeBal(p)
    \/ TradeExecuted(p) \/ TxXferGo(p) \/ TxXfer(p)
    \/ FundsTransfering(p) \/ FtgGet(p) \/ FtgTryEnd(p)
    \/ FundsTransfered(p) \/ FtdFee(p) \/ FtdAddr(p) \/ FtdWdGo(p) \/ FtdWd(p)
    \/ Withdrawing(p) \/ WgGet(p)
    \/ WithdrawalSent(p) \/ WsGet(p)
    \/ InTxConfirmed(p) \/ ScDepositing(p) \/ ScDeposited(p) \/ FinTest(p)
    \/ Finished(p) \/ archiveState(p) \/ FinRm(p)

NextLive ==
    \/ TimerFire
    \/ LiveSteps("timer")
    \/ Settle
    \/ Tick

\* Scheduling: the setTimeout chain of runSwapStateChecker keeps firing and
\* every started handler runs on (weak fairness: such a step stays enabled
\* until it is taken); time keeps passing, every object in flight eventually
\* settles and the CEX eventually reports the deposit as credited (strong
\* fairness: these are enabled again and again, between the engine's steps).
FairLive ==
    /\ WF_vars(TimerFire \/ LiveSteps("timer"))
    /\ SF_vars(Tick)
    /\ SF_vars(Settle)
    /\ SF_vars(OtcDep("timer"))

SpecLive == InitLive /\ [][NextLive]_vars /\ FairLive

\* ------------------------------------------------------ the CEX's decimals
\* A client is about to write an amount into a request (marketTrade,
\* fundsTransfer, withdraw), or to read one from an answer (getBalance,
\* getWithdrawalFee).  DecimalCounts: the decimal counts of the OKX client's
\* table and the 6 of USDC and USDT in the Binance client's.  Amounts: the
\* small base-unit amounts, and some with as many digits as a token has
\* decimals, or more.  Answers: decimal texts as the CEX writes them.
InitDecimal ==
    LET DecimalCounts == {currencyDecimals[c] : c \in DOMAIN currencyDecimals} \cup {6}
        Amounts ==
            0..MaxAmount \cup {99, 100, 12345, 99999999, 100000000, 123456789, 2147483647}
        Answers ==
            {<<"1">>, <<"0">>, <<"2", "1">>,
             <<"0", ".", "0", "0", "0", "0", "0", "0", "0", "1">>,
             <<"0", ".", "5">>,
             <<"1", "2", ".", "3", "4", "5", "6", "7", "8", "9", "0", "1">>}
    IN /\ Start(NoFile)
       /\ \/ \E x \in Amounts, d \in DecimalCounts :
                wire = [NoWire EXCEPT !.amount = x, !.decimalCount = d, !.at = "amount"]
          \/ \E t \in Answers :
                wire = [NoWire EXCEPT !.text = t, !.decimalCount = currencyDecimals["BTC"],
                                      !.at = "answer"]

\* amt: toDecimal(amount, currencyDecimals[currency])
SendAmount ==
    /\ wire.at = "amount"
    /\ wire' = [wire EXCEPT !.text = toDecimal(wire.amount, wire.decimalCount),
                            !.at = "request"]
    /\ UNCHANGED <<docVars, procVars, booting, ext, jobs, crashes, clean, faults, fired>>

\* return fromDecimal(text, currencyDecimals[currency]), of the text of a
\* request or of an answer.
ReadAmount ==
    /\ wire.at \in {"request", "answer"}
    /\ wire' = [wire EXCEPT !.back = fromDecimal(wire.text, wire.decimalCount),
                            !.at = IF wire.at = "request" THEN "returned" ELSE "read"]
    /\ UNCHANGED <<docVars, procVars, booting, ext, jobs, crashes, clean, faults, fired>>

SpecDecimal == InitDecimal /\ [][SendAmount \/ ReadAmount]_vars

\* ------------------------------------------------- the clients' functions
\* A client is about to look up the trading pair of a trade (marketTrade,
\* getTrade), on either venue, for any two currencies.
InitClient ==
    /\ Start(NoFile)
    /\ \E v \in {"OKX", "Binance"}, src \in DOMAIN currencyDecimals,
          dst \in DOMAIN currencyDecimals :
          \/ wire = [at |-> "trade", venue |-> v, srcCurrency |-> src, dstCurrency |-> dst,
                     pair |-> <<>>]
          \/ /\ v = "OKX" \/ src \in DOMAIN currencyDecimalsBinance
             /\ \E cashBal \in {<<>>, <<<<"2", "0">>>>, <<<<"0", ".", "5">>>>,
                                <<<<"1", ".", "2", "3", "4", "5", "6", "7", "8">>>>} :
                   wire = [at |-> "account", venue |-> v, currency |-> src,
                           cashBal |-> cashBal, balance |-> <<>>]

\* const {tradingPair, buy} = this.getTradingPair(srcCurrency, dstCurrency)
TradingPair ==
    /\ wire.at = "trade"
    /\ wire' = [wire EXCEPT
                   !.pair = getTradingPair(wire.venue, wire.srcCurrency, wire.dstCurrency),
                   !.at = "pair"]
    /\ UNCHANGED <<docVars, procVars, booting, ext, jobs, crashes, clean, faults, fired>>

\* getBalance(currency) once the venue has answered: zero when the account
\* has no entry for the currency (cashBal <<>>), fromDecimal of the reported
\* text otherwise. The balance is kept as the BN's digits, toString(10):
\* with 18 decimals it is beyond the integers TLC computes with.
getBalance ==
    LET decimalCount == IF wire.venue = "OKX" THEN currencyDecimals[wire.currency]
                        ELSE currencyDecimalsBinance[wire.currency]
        RECURSIVE toString(_)
        toString(digits) == IF digits = <<>> THEN <<"0">>
                            ELSE IF Head(digits) = "0" THEN toString(Tail(digits))
                            ELSE digits
    IN /\ wire.at = "account"
       /\ wire' = [wire EXCEPT
                      !.balance = IF wire.cashBal = <<>> THEN <<"0">>
                                  ELSE toString(fromDecimalDigits(wire.cashBal[1], decimalCount)),
                      !.at = "balance"]
       /\ UNCHANGED <<docVars, procVars, booting, ext, jobs, crashes, clean, faults, fired>>

SpecClient == InitClient /\ [][TradingPair \/ getBalance]_vars

\* ------------------------------------------------------- one monitor run
\* The plugin has started with no job; one run of the balance monitor gets
\* its answers: the BTC value of the USDC balance, the on-chain balance, the
\* usable USDC balance and the price, for a plugin with the given threshold
\* and amount settings.
InitPools ==
    /\ Start(NoFile)
    /\ \E sc \in {0, 400, 450, 500, 550, 600, 1000}, btc \in {0, 1, 450, 500, 1000},
          usable \in {0, 100, 3000}, price \in {1, 3},
          threshold \in {0, 100000}, amount \in {250000, 500000, 1000000} :
          wire = [at |-> "pools", balanceUSDCinBTC |-> sc, balanceOnchain |-> btc,
                  usableBalanceUSDC |-> usable, usdcPerSat |-> price,
                  rebalanceThresholdPPM |-> threshold, rebalanceAmountPPM |-> amount]

\* onEnable's first check, then the monitor's callback up to the saving of
\* the state it seeded.
SpecPools ==
    /\ InitPools
    /\ [][\/ booting /\ TimerFire
          \/ \E p \in {"timer", "mon1"} :
                \/ check(p) \/ Return(p) \/ Throw(p)
                \/ MonitorSteps(p) \/ setState(p) \/ Saved(p)]_vars

\* ------------------------------------------------------ the withdrawal fee
\* The engine is started on the document of a job whose funds have reached
\* the funding account: FUNDS_TRANSFERED, for each destination, with the
\* balance the CEX reported after the fill as amountIn.  The ids of the
\* earlier legs (0) name objects settled before this run.
InitFee ==
    /\ wire = NoWire
    /\ \E pair \in {<<"USDC", "BTC">>, <<"USDC", "BTC-LN">>, <<"BTC", "USDC">>},
          a \in {0, 1, 4, 5, 999, 1000, 1001, 1002, 2000} :
          Start(saveState([Seed(pair[1], pair[2], 26, 1) EXCEPT
                              !.state = "FUNDS_TRANSFERED",
                              !.outTxs = Some(<<>>), !.outTxId = Some(0),
                              !.depositId = Some(0), !.clientOrderId = Some(0),
                              !.orderId = Some(0), !.price = Some(1),
                              !.amountIn = Some(a),
                              !.clientTransferId = Some(0), !.transferId = Some(0)]))

\* fs.writeFile rejects: saveState and setState reject with it, after
\* "this.state.state = newState".  The file is as it was, or was truncated
\* when it was opened.
SaveFails(p) ==
    /\ Resumes(p, "saving")
    /\ disk' \in {disk, NoFile}
    /\ Step(p, "throw")
    /\ Fault
    /\ UNCHANGED <<state, archive, visited, stk, loc, booting, ext, jobs, wire, crashes>>

\* The FUNDS_TRANSFERED handler, to the answer of the CEX's withdraw; a
\* write of the document may fail.
SpecFee ==
    /\ InitFee
    /\ [][\/ TimerFire
          \/ Tick
          \/ \E p \in {"timer"} :
                \/ check(p) \/ setState(p) \/ Saved(p) \/ Return(p)
                \/ SaveFails(p) \/ Throw(p)
                \/ FundsTransfered(p) \/ FtdFee(p) \/ FtdAddr(p)
                \/ FtdWdGo(p) \/ FtdWd(p) \/ FtdWdOkxError(p)]_vars

\* ------------------------------------------------- a foreign replacement
\* The plugin is enabled with no document while a smart-chain transaction of
\* the node (not of any job of the plugin) is pending: the library may
\* replace it, and calls the plugin's callback when it does.
InitReplace ==
    /\ wire = NoWire
    /\ disk = NoFile /\ state = loadState(NoFile)
    /\ archive = <<>> /\ visited = {}
    /\ pc = [p \in Procs |-> IF p = "timer" THEN "t_wait" ELSE "m_off"]
    /\ stk = [p \in Procs |-> <<>>]
    /\ loc = [p \in Procs |-> Loc0]
    /\ run = NoProc /\ booting = TRUE
    /\ jobs = 0 /\ crashes = 0 /\ clean = TRUE /\ faults = 0 /\ fired = 0
    /\ \E k \in {"scw", "sct", "scd"} :
          ext = <<[kind |-> k, st |-> "sent", job |-> 0, saved |-> FALSE, out |-> 0,
                   amt |-> <<>>, amount |-> 0, lock |-> FALSE]>>

\* onEnable's first check, the monitor's runs up to the saving of the jobs
\* they seed, and what happens to the pending transaction.
SpecReplace ==
    /\ InitReplace
    /\ [][\/ booting /\ TimerFire
          \/ World
          \/ \E p \in {"timer", "mon1"} :
                check(p) \/ Return(p) \/ MonitorSteps(p) \/ setState(p) \/ Saved(p)]_vars

\* ===================================================================== claims

\* C1: all executions of check are serialized: no execution of check starts
\* the action of the job's current state while another execution of check is
\* suspended at an adapter call.
C1_ChecksSerialized ==
    \A p \in Procs :
        (Running(p, "dispatch") /\ Handler(p) \notin {"none", "IDLE"}) => ~Overlaps(p)

\* C1: a timer tick is about to start the TRIGGERED action while the
\* TRIGGERED action started by the monitor's setState(TRIGGERED) is still
\* awaiting its adapter call.
C1_TriggeredTwice ==
    /\ Running("timer", "dispatch")
    /\ Handler("timer") = "TRIGGERED"
    /\ pc["mon1"] \in {"trig_addr", "trig_fund", "trig_sign", "sac_txs", "sac_sign"}

\* Object i of the outside world is an outgoing payment that has been sent
\* and has not failed.
Outgoing(i) == ext[i].kind \in {"btc", "ln", "sct"} /\ ext[i].st \in {"sent", "ok"}

\* C2: at most one outgoing payment of a job (on-chain BTC transaction, LN
\* payment, smart-chain transfer to the CEX) is in flight or confirmed: no
\* second one is sent while an earlier one of the job can still confirm.
C2_OneOutgoingPayment ==
    \A i, j \in DOMAIN ext :
        (Outgoing(i) /\ Outgoing(j) /\ ext[i].job = ext[j].job) => i = j

\* C2: two outgoing payments of one job have both confirmed.
C2_TwoConfirmed ==
    \E i, j \in DOMAIN ext :
        /\ i # j
        /\ ext[i].job = ext[j].job
        /\ ext[i].kind \in {"btc", "ln", "sct"} /\ ext[i].st = "ok"
        /\ ext[j].kind \in {"btc", "ln", "sct"} /\ ext[j].st = "ok"

\* No adapter call has failed and no transaction has been replaced: the
\* adapter behaviour under which the run without a crash archives the job.
AllSucceed == faults = 0 /\ \A i \in DOMAIN ext : ext[i].st # "replaced"

\* The run without a crash, with every adapter call succeeding, never aborts
\* the job to IDLE and never loses the document.
CrashFreeRunCompletes ==
    (crashes = 0 /\ AllSucceed) => state.state \notin {"IDLE", "undefined"}

\* C3: crash safety: with the adapter behaviour of the run above, a run that
\* crashes and restarts from the persisted document ends like the crash-free
\* run: it never ends in IDLE, which the crash-free run never enters.
C3_CrashSafe ==
    AllSucceed => state.state # "IDLE"

\* C3: after a crash and a restart from the persisted document, with every
\* adapter call succeeding, the job has been aborted to IDLE on disk.
C3_CrashedIntoIdle ==
    /\ crashes = 1
    /\ AllSucceed
    /\ state.state = "IDLE"
    /\ disk.state = "IDLE"

\* The labels at which a submission to the CEX, an LN payment or a BTC
\* broadcast has been issued and is awaited.
Issued == {"dr_trade", "tx_xfer", "ftd_wd", "trig_pay", "trig_bcast"}

\* C4: persist-before-act: when marketTrade, fundsTransfer, withdraw, lncli.pay
\* or broadcastChainTransaction is issued, and whenever the order, transfer,
\* withdrawal, payment or transaction exists outside, the document holding
\* its tracking key in the follow-up state has been written to disk.
C4_PersistBeforeAct ==
    /\ \A p \in Procs : pc[p] \in Issued => ext[loc[p].id].saved
    /\ \A i \in DOMAIN ext :
          (ext[i].kind \in {"ord", "xfer", "wd", "ln", "btc"} /\ ext[i].st # "new")
              => ext[i].saved

\* C4: the withdrawal of a job has reached the CEX, after its order and its
\* transfer.
C4_WithdrawalSubmitted ==
    \E i, j, k \in DOMAIN ext :
        /\ ext[i].kind = "wd" /\ ext[i].st = "sent"
        /\ ext[j].kind = "xfer" /\ ext[j].st = "ok"
        /\ ext[k].kind = "ord" /\ ext[k].st = "ok"

\* Document d, when it is in one of the states of RebalancingState, holds
\* every field REQUIRED_FIELDS lists for that state.
Complete(d) ==
    d.state \in States => \A f \in REQUIRED_FIELDS[d.state] : Has(d, f)

\* C5: required-field invariant: the job in memory and the document on disk
\* hold every field of REQUIRED_FIELDS[S] whenever they are in state S.
C5_RequiredFields == Complete(state) /\ Complete(disk)

\* C5: the job is in WITHDRAWAL_SENT, in memory and on disk, the state with
\* the longest list of required fields but FINISHED's.
C5_InWithdrawalSent ==
    /\ state.state = "WITHDRAWAL_SENT"
    /\ disk.state = "WITHDRAWAL_SENT"
    /\ Has(disk, "inTxId")

\* setState is about to run in process p for a state whose required field
\* is missing from the job.
Refuses(p) ==
    /\ Running(p, "setState")
    /\ \E f \in REQUIRED_FIELDS[loc[p].target] : ~Has(state, f)

\* The labels at which the code following "await this.setState(S)" starts:
\* setState(S) has just returned to its caller, whose frame holds S.
AfterSetState ==
    {"trig_pay_go", "trig_bcast_go", "sac_send_go", "dr_trade_go", "tx_xfer_go",
     "ftd_wd_go", "fin_test"}

\* C6: setState(S) is all-or-nothing as stated: it raises its error and
\* leaves the job's state and the document untouched when a required field
\* is missing, and in the step that returns it to its caller the document
\* on disk carries state S with every field of REQUIRED_FIELDS[S].
C6_PersistedOnReturn ==
    [][\A p \in Procs :
         /\ Refuses(p) => (state' = state /\ disk' = disk /\ pc'[p] = "throw")
         /\ (Running(p, "ret") /\ pc'[p] \in AfterSetState)
                => (disk'.state = loc'[p].target /\ Complete(disk'))]_vars

\* C6, amended: setState(S) raises its error and leaves the job and the
\* document untouched when a required field is missing; otherwise the write
\* it awaits puts the document carrying state S with every field of
\* REQUIRED_FIELDS[S] on disk, before the recursive check runs (which may
\* move the job on, or archive it, before setState returns).
C6_PersistedBeforeCheck ==
    [][\A p \in Procs :
         /\ Refuses(p) => (state' = state /\ disk' = disk /\ pc'[p] = "throw")
         /\ (pc[p] = "saving" /\ pc'[p] = "check")
                => (disk'.state = loc[p].target /\ Complete(disk') /\ disk'.state \in States)]_vars

\* C6: setState(DEPOSIT_RECEIVED) has raised its error on a job without
\* depositId: the job and the document are still in OUT_TX_CONFIRMED.
C6_Refused ==
    /\ Running("timer", "throw")
    /\ loc["timer"].target = "DEPOSIT_RECEIVED"
    /\ ~Has(state, "depositId")
    /\ state.state = "OUT_TX_CONFIRMED"
    /\ disk.state = "OUT_TX_CONFIRMED"

\* C7: persistence round trip: loadState applied to the text saveState
\* writes for the job yields the job's values of amountOut, amountIn and
\* withdrawalFee.
C7_RoundTrip ==
    \A f \in BNFields : loadState(saveState(state))[f] = state[f]

\* C7: the engine has restarted on a document that holds the three
\* big-integer fields, and the job loaded from it has their values.
C7_Reloaded ==
    /\ crashes = 1
    /\ booting
    /\ \A f \in BNFields : Has(disk, f)
    /\ state.amountOut = Some(26)
    /\ state.amountIn = Some(2000)
    /\ state.withdrawalFee = Some(3)

\* C8: single job: a monitor run overwrites the job and calls
\* setState(TRIGGERED) only while the job is idle (no job, null or IDLE),
\* whatever has run since its idle check.
C8_SeedsOnlyWhenIdle ==
    [][\A p \in Monitors :
         (pc[p] = "m_bal" /\ pc'[p] = "setState")
             => state.state \in {"undefined", "null", "IDLE"}]_vars

\* C8: a monitor run has replaced a job whose outgoing payment is in flight
\* by a job of its own.
C8_ReplacedActiveJob ==
    /\ state.job = 2
    /\ \E i \in DOMAIN ext : ext[i].job = 1 /\ Outgoing(i) /\ ext[i].st = "sent"
    /\ \A i \in DOMAIN ext : ext[i].job = 1

\* A step persists a transition of one job: the document on disk changes
\* from one state of RebalancingState to another.
PersistedTransition ==
    /\ disk.state \in States
    /\ disk'.state \in States
    /\ disk'.job = disk.job
    /\ disk'.state # disk.state

\* C9: monotone progress: from one persisted transition of a job to the
\* next the state index never decreases, except for a transition into or out
\* of RETRYING, and the state entered from RETRYING is one the job has
\* occupied before.
C9_MonotoneProgress ==
    [][PersistedTransition =>
         /\ ("RETRYING" \notin {disk.state, disk'.state})
                => RebalancingState[disk'.state] >= RebalancingState[disk.state]
         /\ disk.state = "RETRYING" => disk'.state \in visited]_vars

\* C9, with the aborts: the same, except that a job may also be abandoned
\* to IDLE from a later state.
C9_MonotoneButAbort ==
    [][PersistedTransition =>
         /\ ("RETRYING" \notin {disk.state, disk'.state} /\ disk'.state # "IDLE")
                => RebalancingState[disk'.state] >= RebalancingState[disk.state]
         /\ disk.state = "RETRYING" => disk'.state \in visited]_vars

\* C9: the only job ever seeded is on disk in TRIGGERED after it had been
\* persisted in SC_WITHDRAWING, and it never passed through RETRYING or IDLE.
C9_FellBack ==
    /\ jobs = 1
    /\ disk.state = "TRIGGERED"
    /\ "SC_WITHDRAWING" \in visited
    /\ "RETRYING" \notin visited
    /\ "IDLE" \notin visited

\* The state in which a client id is the tracking key, its field, and the
\* labels at which the submission and the poll carrying it are awaited.
KeyStates ==
    {[st |-> "TRADE_EXECUTING", field |-> "clientOrderId", submit |-> "dr_trade", poll |-> "te_get"],
     [st |-> "FUNDS_TRANSFERING", field |-> "clientTransferId", submit |-> "tx_xfer", poll |-> "ftg_get"],
     [st |-> "WITHDRAWING", field |-> "withdrawalId", submit |-> "ftd_wd", poll |-> "wg_get"]}

\* The key is not changed while the job stays in its state, and every
\* submission and every poll awaited in that state names it.
KeyKept ==
    \A k \in KeyStates :
        (state.state = k.st /\ state'.state = k.st /\ state'.job = state.job)
            => /\ state'[k.field] = state[k.field]
               /\ \A p \in Procs : pc'[p] \in {k.submit, k.poll}
                                        => loc'[p].id = state'[k.field][1]

\* The request that reaches the CEX is recorded under the key: the order,
\* transfer or withdrawal that comes to exist is the one the key names.
KeySubmitted ==
    \A k \in KeyStates : \A p \in Procs :
        (state.state = k.st /\ pc[p] = k.submit /\ pc'[p] = "ret" /\ ext' # ext)
            => ext'[state[k.field][1]].st = "sent"

\* C10: idempotency key stability: during one occupancy of TRADE_EXECUTING,
\* FUNDS_TRANSFERING or WITHDRAWING the key chosen at entry is not changed,
\* and every submission to and every poll of the CEX uses it.
C10_KeyStability == [][KeyKept /\ KeySubmitted]_vars

\* C10, the part about the job document alone: the key is kept and named by
\* every submission and poll issued.
C10_KeyKept == [][KeyKept]_vars

\* C10: in WITHDRAWING the CEX has received a withdrawal request, while the
\* withdrawal the key names does not exist at the CEX.
C10_UnkeyedWithdrawal ==
    /\ state.state = "WITHDRAWING"
    /\ ext[state.withdrawalId[1]].st = "new"
    /\ Has(state, "receivingAddress")
    /\ state.receivingAddress[1] # 0
    /\ ext[state.receivingAddress[1]].st = "sent"

\* An earlier withdrawal of the same job exists: the withdrawal id is the id
\* of a resubmission after RETRYING(FUNDS_TRANSFERED).
Resubmission(id) ==
    \E j \in DOMAIN ext : j < id /\ ext[j].kind = ext[id].kind /\ ext[j].job = ext[id].job

\* The trade poll observes the order canceled or not found (and no other
\* error): the job is given retryAt = now + retryTime and retryState =
\* DEPOSIT_RECEIVED and setState(RETRYING) is called; likewise the
\* withdrawal poll, with retryState = FUNDS_TRANSFERED.
RetryEntered ==
    \A p \in Procs : \A k \in KeyStates :
        (/\ k.st # "FUNDS_TRANSFERING"
         /\ pc[p] = k.poll /\ pc'[p] # k.poll
         /\ StOf(loc[p].id) \in {"new", "bad"}
         /\ faults' = faults /\ crashes' = crashes)
            => /\ pc'[p] = "setState"
               /\ loc'[p].target = "RETRYING"
               /\ state'.retryAt = Some(retryTime)
               /\ state'.retryState =
                     Some(IF k.st = "TRADE_EXECUTING" THEN "DEPOSIT_RECEIVED"
                          ELSE "FUNDS_TRANSFERED")

\* The id a submission is issued with has never been submitted before: the
\* CEX knows no order, transfer or withdrawal under it.
FreshKey ==
    \A p \in Procs : \A k \in KeyStates :
        (pc[p] # k.submit /\ pc'[p] = k.submit) => ext'[loc'[p].id].st = "new"

\* A resubmitted withdrawal that reaches the CEX is recorded there under its
\* own, new id.
ResubmissionObserved ==
    \A p \in Procs :
        (/\ pc[p] = "ftd_wd" /\ pc'[p] = "ret" /\ ext' # ext
         /\ Resubmission(loc[p].id))
            => ext'[loc[p].id].st = "sent"

\* C11: fresh key after a retry: a trade observed canceled or not found
\* leads to RETRYING(DEPOSIT_RECEIVED), a failed or missing withdrawal to
\* RETRYING(FUNDS_TRANSFERED); the submission that follows carries an id
\* never submitted before, and the CEX observes the resubmitted withdrawal
\* under that new id.
C11_FreshKeyAfterRetry == [][RetryEntered /\ FreshKey /\ ResubmissionObserved]_vars

\* C11, the part about the ids the engine mints: RETRYING is entered as
\* stated and every submission is issued with an id never submitted before.
C11_FreshKeyMinted == [][RetryEntered /\ FreshKey]_vars

\* C11: after RETRYING(FUNDS_TRANSFERED) a second withdrawal request has
\* reached the CEX, and the CEX knows neither the first nor the second
\* withdrawalId.
C11_ResubmittedUnkeyed ==
    /\ state.state = "WITHDRAWING"
    /\ "RETRYING" \in visited
    /\ Resubmission(state.withdrawalId[1])
    /\ state.dstToken = Some("BTC-LN")
    /\ ext[state.receivingAddress[1]].st = "sent"
    /\ \A i \in DOMAIN ext : ext[i].kind = "wd" => ext[i].st = "new"

\* The withdrawal request of the job's current occupancy of WITHDRAWING has
\* reached the CEX: the withdrawal named by withdrawalId exists there, or
\* the invoice given as receivingAddress has been handed to the CEX.
Requested(s) ==
    \/ ext[s.withdrawalId[1]].st # "new"
    \/ s.receivingAddress[1] # 0 /\ ext[s.receivingAddress[1]].st # "new"

\* C12: every withdrawal submitted carries the persisted withdrawalId, on
\* every rail: whenever getWithdrawal(withdrawalId) is polled in WITHDRAWING
\* for a request that has reached the CEX, the withdrawal it names is that
\* request.
C12_WithdrawalKeyed ==
    \A p \in Procs :
        (/\ pc[p] = "wg_get"
         /\ state.state = "WITHDRAWING"
         /\ loc[p].id = state.withdrawalId[1]
         /\ Requested(state))
            => ext[loc[p].id].st # "new"

\* C12: getWithdrawal(withdrawalId) is being polled while the CEX has paid
\* the invoice of the BTC-LN withdrawal and knows no withdrawal of that id.
C12_PaidButNotFound ==
    /\ pc["timer"] = "wg_get"
    /\ state.state = "WITHDRAWING"
    /\ state.dstToken = Some("BTC-LN")
    /\ loc["timer"].id = state.withdrawalId[1]
    /\ ext[loc["timer"].id].st = "new"
    /\ ext[state.receivingAddress[1]].st = "ok"

\* C13: finishing a job: its document is archived exactly once (no two
\* archived documents belong to one job), and once a job's document is in
\* the archive and the live document is gone, the job in memory is cleared.
C13_ArchivedOnce ==
    /\ \A i, j \in DOMAIN archive : archive[i].job = archive[j].job => i = j
    /\ \A p \in Procs :
          (Running(p, "ret") /\ archive # <<>> /\ disk = NoFile) => state.state = "null"

\* C13, without a crash: the same.
C13_ArchivedOnceNoCrash == crashes = 0 => C13_ArchivedOnce

\* C13: the job has been archived twice: once before the crash and once
\* more by the engine restarted on the FINISHED document.
C13_ArchivedTwice ==
    /\ crashes = 1
    /\ Len(archive) = 2
    /\ archive[1].job = archive[2].job
    /\ archive[1].state = "FINISHED"
    /\ disk = NoFile
    /\ state.state = "null"

\* The job has been archived in FINISHED, its live document is gone and no
\* job is in memory.
Archived ==
    /\ Len(archive) = 1
    /\ archive[1].state = "FINISHED"
    /\ disk = NoFile
    /\ state.state = "null"

\* C14: happy-path liveness: when every adapter call eventually reports
\* success and ticks keep occurring, a job seeded in TRIGGERED (BTC -> USDC
\* or USDC -> BTC) is eventually archived in FINISHED, with the live document
\* absent.
C14_HappyPathCompletes == (state.state = "TRIGGERED") ~> Archived

\* C14: a USDC -> BTC job has been archived in FINISHED after its
\* withdrawal was paid out; a BTC -> USDC job likewise after its deposit
\* back into the contract.
C14_JobArchived ==
    /\ Archived
    /\ \/ /\ archive[1].dstToken = Some("BTC")
          /\ \E i \in DOMAIN ext : ext[i].kind = "in" /\ ext[i].st = "ok"
       \/ /\ archive[1].dstToken = Some("USDC")
          /\ \E i \in DOMAIN ext : ext[i].kind = "scd" /\ ext[i].st = "ok"

\* Object i is a payment or smart-chain candidate of the job in memory that
\* has left: it is in flight or has confirmed.
Left(i) ==
    /\ ext[i].job = state.job
    /\ ext[i].kind \in {"ln", "btc", "scw", "sct"}
    /\ ext[i].st \in {"sent", "ok"}

\* C15: IDLE is reached only for pre-movement failures: whenever the job is
\* in IDLE, no LN payment, BTC transaction or smart-chain candidate of the
\* job is in flight or confirmed.
C15_IdleBeforeMovement ==
    state.state = "IDLE" => \A i \in DOMAIN ext : ~Left(i)

\* C15: the job has been persisted in IDLE while its LN payment to the CEX
\* has settled.
C15_IdleButPaid ==
    /\ state.state = "IDLE"
    /\ disk.state = "IDLE"
    /\ crashes = 0
    /\ \E i \in DOMAIN ext : Left(i) /\ ext[i].kind = "ln" /\ ext[i].st = "ok"

\* The candidate map of the broadcast state st.
StateMap(st) ==
    CASE st = "SC_WITHDRAWING" -> "scWithdrawTxs"
      [] st = "OUT_TX" -> "outTxs"
      [] OTHER -> "scDepositTxs"

\* The job is in a broadcast state whose candidate map has the key old.
Replaceable(old) ==
    /\ state.state \in {"SC_WITHDRAWING", "OUT_TX", "SC_DEPOSITING"}
    /\ Has(state, StateMap(state.state))
    /\ old \in Range(state[StateMap(state.state)][1])

\* The step is the callback onBeforeTxReplace for the transaction old: the
\* library gives old up for a new transaction.
Replaces(old) ==
    /\ old \in DOMAIN ext
    /\ ext[old].st = "sent"
    /\ ext'[old].st = "replaced"

\* What the callback for old does to the job and its document.
ReplaceEffect(old) ==
    LET f == StateMap(state.state)
        new == Len(ext) + 1
    IN IF Replaceable(old)
       THEN /\ state' = [state EXCEPT ![f] = Some(Append(@[1], new)),
                                      !.cooldown = Some(cooldownTime)]
            /\ old \in Range(state'[f][1])
            /\ disk' = saveState(state')
       ELSE state' = state /\ disk' = disk

\* A scan that finds a candidate successful records that candidate's id and
\* calls setState for the confirmed state.
ScanRecords ==
    \A p \in Procs :
        (/\ pc[p] = "scan" /\ pc'[p] = "setState"
         /\ loc'[p].target = ConfirmedState(loc[p].k))
            => /\ ext[Head(loc[p].scan)].st = "ok"
               /\ state'[ConfirmedField(loc[p].k)] = Some(Head(loc[p].scan))

\* C16: tx replacement: the callback changes the job if and only if the job
\* is in SC_WITHDRAWING, OUT_TX or SC_DEPOSITING and oldTxId is a key of that
\* state's candidate map; then the new id is added, the old one kept, the
\* cooldown set to now + 5 s and the document saved, and otherwise job and
\* document are unchanged; a scan that finds a candidate successful records
\* that candidate's id.
C16_TxReplacement ==
    [][(\A old \in 1..MaxExt : Replaces(old) => ReplaceEffect(old)) /\ ScanRecords]_vars

\* C16: a replacement registered by the callback has been found successful
\* by a later scan of OUT_TX: the job is in OUT_TX_CONFIRMED on disk with the
\* replacement's id as outTxId, and the replaced candidate is still in outTxs.
C16_ReplacementConfirmed ==
    /\ disk.state = "OUT_TX_CONFIRMED"
    /\ \E old \in DOMAIN ext : \E new \in DOMAIN ext :
          /\ ext[old].st = "replaced" /\ ext[old].kind = "sct"
          /\ new > old /\ ext[new].kind = "sct" /\ ext[new].st = "ok"
          /\ disk.outTxId = Some(new)
          /\ {old, new} \subseteq Range(disk.outTxs[1])

\* check() runs in process p on a job in RETRYING whose cooldown has passed.
ChecksRetrying(p) ==
    /\ Running(p, "check")
    /\ state.state = "RETRYING"
    /\ ~(Has(state, "cooldown") /\ state.cooldown[1] > 0)

\* The step of p calls setState(retryState).
Resumed(p) == pc'[p] = "setState" /\ loc'[p].target = state.retryState[1]

\* The step of p returns from check with the job, the files and the outside
\* untouched.
Waits(p) == pc'[p] = "ret" /\ UNCHANGED <<docVars, ext>>

\* C17: RETRYING timing: at a tick where the job is in RETRYING and the
\* cooldown has passed, the job moves to retryState if now >= retryAt
\* (now = retryAt included) and stays in RETRYING, with no adapter call, if
\* now < retryAt.
C17_RetryAtInclusive ==
    [][\A p \in Procs :
          ChecksRetrying(p) =>
              IF state.retryAt[1] <= 0 THEN Resumed(p) ELSE Waits(p)]_vars

\* C17: what the code does: the job moves to retryState only if
\* now > retryAt, and stays in RETRYING, with no adapter call, if
\* now <= retryAt.
C17_RetryAtExclusive ==
    [][\A p \in Procs :
          ChecksRetrying(p) =>
              IF state.retryAt[1] < 0 THEN Resumed(p) ELSE Waits(p)]_vars

\* C17: a check has run at now = retryAt on a job in RETRYING whose cooldown
\* had passed, and has returned with the job still in RETRYING.
C17_StaysAtRetryAt ==
    \E p \in Procs :
        /\ Running(p, "ret")
        /\ stk[p] = <<>>
        /\ state.state = "RETRYING"
        /\ state.retryAt = Some(0)
        /\ ~(Has(state, "cooldown") /\ state.cooldown[1] > 0)
        /\ disk.state = "RETRYING"

\* No job exists: this.state was never assigned, or is {state: null}.
NoJob == state.state \in {"undefined", "null"}

\* now < cooldown
CoolingDown == Has(state, "cooldown") /\ state.cooldown[1] > 0

\* C18: cooldown gating: an execution of check that starts while no job
\* exists or while now < cooldown makes no adapter call, performs no state
\* transition and writes nothing to disk: it returns, with the job, the
\* files, the outside and the frames of its callers as they were.
C18_CooldownGate ==
    [][\A p \in Procs :
          /\ (Running(p, "check") /\ (NoJob \/ CoolingDown))
                => /\ pc'[p] \in {"ret", "dispatch"}
                   /\ pc'[p] = "dispatch" => state.state = "null"
                   /\ UNCHANGED <<docVars, ext, stk>>
          /\ (Running(p, "dispatch") /\ NoJob)
                => pc'[p] = "ret" /\ UNCHANGED <<docVars, ext, stk>>]_vars

\* C18: a check started by the timer on a job in a state that has a handler,
\* while now < cooldown, has returned at once.
C18_GatedCheckReturned ==
    /\ Running("timer", "ret")
    /\ stk["timer"] = <<>>
    /\ loc["timer"] = Loc0
    /\ CoolingDown
    /\ state.state \in {"SC_WITHDRAWING", "OUT_TX", "SC_DEPOSITING"}

\* amountIn - withdrawalFee of the job d.
Net(d) == d.amountIn[1] - d.withdrawalFee[1]

\* The job d has a smart-chain destination and the fields of its
\* destination leg.
SmartChainLeg(d) ==
    /\ d.state \in States
    /\ Has(d, "dstToken") /\ ~IsBtc(d.dstToken)
    /\ Has(d, "amountIn") /\ Has(d, "withdrawalFee") /\ Has(d, "withdrawalId")

\* The amount of the withdrawal request w the CEX has received, in base
\* units of currency.
Withdrawn(w, currency) == fromDecimal(ext[w].amt, currencyDecimals[currency])

\* C19: destination leg accounting: for a job with a smart-chain
\* destination, the amount of the withdrawal the job names, as the CEX has
\* received it, and the amount of every deposit transaction of the job are
\* both amountIn - withdrawalFee of the persisted job, so the deposited
\* amount equals the withdrawn amount, also after retries through RETRYING.
C19_DepositEqualsWithdrawal ==
    LET d == loadState(disk)
    IN SmartChainLeg(d) =>
         /\ ext[d.withdrawalId[1]].amt # <<>>
               => Withdrawn(d.withdrawalId[1], d.dstToken[1]) = Net(d)
         /\ \A i \in DOMAIN ext :
               (ext[i].kind = "scd" /\ ext[i].job = d.job)
                  => /\ ext[i].amount = Net(d)
                     /\ ext[i].amount = Withdrawn(d.withdrawalId[1], d.dstToken[1])

\* C19: a job with a smart-chain destination has been through RETRYING and
\* has withdrawn twice, with different fees; its deposit transaction is
\* confirmed and carries the amount of the withdrawal the job names.
C19_DepositedAfterRetry ==
    LET d == loadState(disk)
    IN /\ SmartChainLeg(d)
       /\ "RETRYING" \in visited
       /\ ext[d.withdrawalId[1]].st = "ok"
       /\ \E w \in DOMAIN ext :
             /\ ext[w].kind = "wd" /\ ext[w].job = d.job
             /\ ext[w].amt # <<>>
             /\ ext[w].amt # ext[d.withdrawalId[1]].amt
       /\ \E i \in DOMAIN ext :
             /\ ext[i].kind = "scd" /\ ext[i].job = d.job /\ ext[i].st = "ok"
             /\ ext[i].amount = Withdrawn(d.withdrawalId[1], d.dstToken[1])

\* The text t with decimalCount d has been read as the amount x.
ReadAs(t, d, x) ==
    (wire.at = "read" /\ wire.text = t /\ wire.decimalCount = d) => wire.back = x

\* The amount x with decimalCount d has been written as the text t.
WrittenAs(x, d, t) ==
    (wire.at \in {"request", "returned"} /\ wire.amount = x /\ wire.decimalCount = d)
        => wire.text = t

\* C20: decimal conversion round trip: for every decimal count d used for a
\* token and every base-unit amount x >= 0, fromDecimal(toDecimal(x, d), d)
\* = x; toDecimal(1, 8) = "0.00000001", fromDecimal("0.00000001", 8) = 1,
\* toDecimal(100000000, 8) = "1.00000000" and fromDecimal("1", 8) =
\* 100000000.
C20_DecimalRoundTrip ==
    /\ wire.at = "returned" => wire.back = wire.amount
    /\ WrittenAs(1, 8, <<"0", ".", "0", "0", "0", "0", "0", "0", "0", "1">>)
    /\ ReadAs(<<"0", ".", "0", "0", "0", "0", "0", "0", "0", "1">>, 8, 1)
    /\ WrittenAs(100000000, 8, <<"1", ".", "0", "0", "0", "0", "0", "0", "0", "0">>)
    /\ ReadAs(<<"1">>, 8, 100000000)

\* C20: the amount 1 has been written with 18 decimals, as a text of twenty
\* characters, and read back as 1.
C20_SmallestUnitReturned ==
    /\ wire.at = "returned"
    /\ wire.amount = 1
    /\ wire.decimalCount = 18
    /\ Len(wire.text) = 20
    /\ wire.back = 1

\* src and dst are a supported route: one side BTC or BTC-LN, the other
\* USDC, USDT, ETH or SOL.
Supported(src, dst) ==
    \/ src \in {"BTC", "BTC-LN"} /\ dst \in {"USDC", "USDT", "ETH", "SOL"}
    \/ dst \in {"BTC", "BTC-LN"} /\ src \in {"USDC", "USDT", "ETH", "SOL"}

\* C21: trading-pair mapping involution: for every supported (src, dst),
\* getTradingPair(src, dst) and getTradingPair(dst, src) return the same pair
\* and complementary buy flags, on both venues; when BTC is the base asset
\* the flag is sell when moving from BTC and buy when moving to BTC, and the
\* reverse when BTC is the quote asset.
C21_PairInvolution ==
    (wire.at = "pair" /\ Supported(wire.srcCurrency, wire.dstCurrency)) =>
        LET there == wire.pair
            back == getTradingPair(wire.venue, wire.dstCurrency, wire.srcCurrency)
            fromBtc == wire.srcCurrency \in {"BTC", "BTC-LN"}
            btcIsBase == Head(there.tradingPair[1]) = "BTC"
        IN /\ there.tradingPair # <<>> /\ there.buy # <<>>
           /\ back.tradingPair = there.tradingPair
           /\ back.buy = <<~there.buy[1]>>
           /\ there.tradingPair[1][Len(there.tradingPair[1])] = "BTC" <=> ~btcIsBase
           /\ there.buy[1] = IF btcIsBase THEN ~fromBtc ELSE fromBtc

\* C21: the pair of a trade from BTC-LN into ETH has been looked up on the
\* venue that writes pairs with a hyphen: ETH-BTC, BTC the quote asset, buy.
C21_BuysEthWithBtc ==
    /\ wire.at = "pair"
    /\ wire.venue = "OKX"
    /\ wire.srcCurrency = "BTC-LN" /\ wire.dstCurrency = "ETH"
    /\ wire.pair = [tradingPair |-> <<<<"ETH", "-", "BTC">>>>, buy |-> <<TRUE>>]

\* C22: on the venue whose pairs are written with a hyphen, the one the
\* engine talks to, USDC and USDT have 6 decimals, so a reported balance of
\* "20" becomes 20000000 base units; on the venue with concatenated symbols
\* they have 18.
C22_UsdcSixDecimalsWithHyphen ==
    (/\ wire.at = "balance"
     /\ wire.currency \in {"USDC", "USDT"}
     /\ wire.cashBal = <<<<"2", "0">>>>) =>
        wire.balance = <<"2", "0">> \o repeat("0", IF wire.venue = "OKX" THEN 6 ELSE 18)

\* C22: the venue with the hyphen has reported a USDC balance of "20" and
\* getBalance has returned 20 * 10^18.
C22_UsdcBalanceHasEighteen ==
    /\ wire.at = "balance"
    /\ wire.venue = "OKX"
    /\ wire.currency = "USDC"
    /\ wire.cashBal = <<<<"2", "0">>>>
    /\ wire.balance = <<"2", "0">> \o repeat("0", 18)

\* C23: with ppmSC and ppmBTC the floor PPM shares of sum = btcValueOfSC +
\* balanceBTCOnchain and diff = ppmSC - ppmBTC, a monitor run that started
\* idle seeds a job if and only if |diff| > rebalanceThresholdPPM and, when
\* diff >= 0, the converted USDC amount does not exceed usableBalanceSC; the
\* job is BTC -> USDC with amountOut = notional when diff < 0 and USDC -> BTC
\* with amountOut = usdcAmount otherwise, notional being
\* floor(floor(sum * |diff| * rebalanceAmountPPM / 10^6) / 10^6), here
\* floor(sum * |diff| / (10^6 * (10^6 / rebalanceAmountPPM))) as
\* rebalanceAmountPPM divides 10^6; when no job is seeded the state is left
\* unchanged.
C23_SeedingRule ==
    [][(/\ wire.at = "pools"
        /\ pc["mon1"] = "m_bal" /\ pc'["mon1"] # "m_bal"
        /\ wire.balanceUSDCinBTC + wire.balanceOnchain > 0) =>
          LET sum == wire.balanceUSDCinBTC + wire.balanceOnchain
              ppmSC == (wire.balanceUSDCinBTC * 1000000) \div sum
              ppmBTC == (wire.balanceOnchain * 1000000) \div sum
              diff == ppmSC - ppmBTC
              size == IF diff < 0 THEN -diff ELSE diff
              notional ==
                  (sum * size) \div (1000000 * (1000000 \div wire.rebalanceAmountPPM))
              usdcAmount == notional * wire.usdcPerSat
              seeds == /\ size > wire.rebalanceThresholdPPM
                       /\ diff >= 0 => usdcAmount <= wire.usableBalanceUSDC
          IN IF seeds
             THEN /\ state'.state = "null"
                  /\ state'.srcToken = Some(IF diff < 0 THEN "BTC" ELSE "USDC")
                  /\ state'.dstToken = Some(IF diff < 0 THEN "USDC" ELSE "BTC")
                  /\ state'.amountOut = Some(IF diff < 0 THEN notional ELSE usdcAmount)
                  /\ pc'["mon1"] = "setState" /\ loc'["mon1"].target = "TRIGGERED"
             ELSE state' = state /\ pc'["mon1"] = "m_off"]_vars

\* C23: a run that found 600 sats' worth of USDC against 450 sats on-chain
\* (a difference of 142857 ppm), with half of the difference to be moved at
\* 3 USDC units per sat, has seeded USDC -> BTC for 222 units (notional 74)
\* and the job is saved as TRIGGERED.
C23_SeededUsdcToBtc ==
    /\ wire.at = "pools"
    /\ wire.balanceUSDCinBTC = 600 /\ wire.balanceOnchain = 450
    /\ wire.rebalanceThresholdPPM = 100000 /\ wire.rebalanceAmountPPM = 500000
    /\ wire.usdcPerSat = 3
    /\ state.state = "TRIGGERED"
    /\ state.srcToken = Some("USDC") /\ state.dstToken = Some("BTC")
    /\ state.amountOut = Some(222)
    /\ disk.state = "TRIGGERED"

\* An adapter call of the periodic check raises an error in this step.
Raises == faults' = faults + 1 /\ run' = "timer"

\* C24: if an adapter call raises an error during a tick, the tick ends with
\* the job's persisted state unchanged, the periodic tick keeps running and
\* the next tick retries the action of the same state: the step that raises
\* starts the unwinding of check() with the state in memory and on disk as
\* they were, and the unwinding writes nothing and ends with the timer set.
C24_ErrorEndsTick ==
    [][/\ Raises => /\ pc'["timer"] \in {"throw", "ret"}
                    /\ state'.state = state.state
                    /\ disk' = disk
       /\ (pc["timer"] = "throw" /\ run = "timer") =>
             /\ pc'["timer"] \in {"throw", "ret", "t_wait"}
             /\ state'.state = state.state
             /\ disk' = disk]_vars

\* C24: a call about the Lightning payment (lncli.pay, lncli.getPayment) has
\* raised an error while the payment was in flight, and the job has been
\* persisted in IDLE.
C24_LookupErrorAbandoned ==
    /\ state.srcToken = Some("BTC-LN")
    /\ state.state = "IDLE"
    /\ disk.state = "IDLE"
    /\ faults = 1
    /\ crashes = 0
    /\ \E i \in DOMAIN ext :
          ext[i].job = state.job /\ ext[i].kind = "ln" /\ ext[i].st = "sent"

\* C25: whenever an on-chain BTC job ends in IDLE after fundPsbt has reserved
\* inputs (signPsbt failure, broadcast failure, or the outgoing tx later
\* found missing in OUT_TX, including after a restart), every input reserved
\* by fundPsbt for that job has been unlocked.
C25_UtxosReleased ==
    (state.state = "IDLE" /\ disk.state = "IDLE" /\ state.srcToken = Some("BTC")) =>
        \A i \in DOMAIN ext :
            (ext[i].kind = "btc" /\ ext[i].job = state.job) => ~ext[i].lock

\* C25: after a restart the job was found in OUT_TX with its transaction
\* never broadcast, and it has been persisted in IDLE with the inputs of the
\* transaction still locked.
C25_IdleWithLockedInputs ==
    /\ state.state = "IDLE"
    /\ disk.state = "IDLE"
    /\ state.srcToken = Some("BTC")
    /\ crashes = 1
    /\ faults = 0
    /\ \E i \in DOMAIN ext :
          /\ ext[i].kind = "btc" /\ ext[i].job = state.job
          /\ ext[i].st = "new" /\ ext[i].lock

\* The processes whose fs.writeFile is under way.
Saving == {p \in Procs : pc[p] = "saving"}

\* C26: saving the document is an atomic replace: at every crash point during
\* saveState the live document on disk is either the complete previous
\* document or the complete new document, never a truncated or partly
\* written one.
C26_AtomicSave ==
    [][(crashes' = crashes + 1 /\ Saving # {}) =>
          disk' \in {disk} \cup {loc[p].txt : p \in Saving}]_vars

\* C26: the process stopped while the document of a running job was being
\* written, and the restarted plugin finds no readable document: the job is
\* gone though it was never archived.
C26_DocumentLost ==
    /\ crashes = 1
    /\ disk = NoFile
    /\ state = Undefined
    /\ archive = <<>>
    /\ jobs = 1

\* C27: the recursion check -> setState -> check started by one tick
\* terminates, advancing the job by at most about 16 transitions, given that
\* every adapter call returns, and a RETRYING loop cannot make a single tick
\* recurse forever: a tick never saves more than 16 transitions, and the
\* check() that follows a transition into RETRYING returns.
C27_BoundedTick ==
    [][/\ loc'["timer"].made <= 16
       /\ (/\ run = "timer" /\ pc["timer"] = "check"
           /\ state.state = "RETRYING" /\ loc["timer"].made > 0) =>
             pc'["timer"] = "ret"]_vars

\* C27: one tick has taken the job through five transitions, the last of
\* them into FINISHED.
C27_FiveInOneTick ==
    /\ run = "timer"
    /\ loc["timer"].made = 5
    /\ state.state = "FINISHED" /\ disk.state = "FINISHED"

\* The status of the last candidate queried and, with it, what the scan of
\* the timer's check has seen.
Queried == getTxStatus(Head(loc["timer"].scan))
SeenPending == loc["timer"].pend \/ Queried = "pending"
SeenNotFoundOrReverted == loc["timer"].nfr \/ Queried \in {"not_found", "reverted"}

\* The timer's scan of the candidates of kind k ends in this step: a
\* candidate is success, or the last candidate has been queried.
ScanEnds(k) ==
    /\ pc["timer"] = "scan" /\ loc["timer"].k = k
    /\ pc'["timer"] \notin {"scan", "throw"}
    /\ crashes' = crashes

LookupReturns(l) ==
    /\ pc["timer"] = l
    /\ run' = "timer"
    /\ faults' = faults

\* What follows a lookup that found the payment with status st: IDLE when it
\* is missing or failed, OUT_TX_CONFIRMED with outTxId set when it is
\* confirmed, no change while it is in flight.
LookupOutcome(st) ==
    CASE st \in {"new", "bad"} ->
            /\ pc'["timer"] = "setState" /\ loc'["timer"].target = "IDLE"
      [] st = "ok" ->
            /\ state'.outTxId = Some(loc["timer"].id)
            /\ pc'["timer"] = "setState" /\ loc'["timer"].target = "OUT_TX_CONFIRMED"
      [] OTHER -> state' = state /\ pc'["timer"] = "ret"

\* C29: OUT_TX outcomes per rail: for src=BTC a missing tx leads to IDLE and
\* a tx with at least 1 confirmation to OUT_TX_CONFIRMED with outTxId set;
\* for src=BTC-LN a failed or missing payment leads to IDLE and a confirmed
\* one to OUT_TX_CONFIRMED; for a smart-chain source, when no candidate is
\* success, at least one is not_found/reverted and none is pending, the job
\* clears outTxs and enters RETRYING with retryState=SC_WITHDRAWAL_CONFIRMED
\* and retryAt=now+retryTime, never IDLE.
C29_OutTxOutcomes ==
    [][/\ LookupReturns("otx_btc") =>
             state.srcToken = Some("BTC") /\ LookupOutcome(StOf(loc["timer"].id))
       /\ LookupReturns("otx_ln") =>
             state.srcToken = Some("BTC-LN") /\ LookupOutcome(StOf(loc["timer"].id))
       /\ ScanEnds("sct") =>
             /\ state.srcToken \notin {Some("BTC"), Some("BTC-LN")}
             /\ IF Queried = "success"
                THEN /\ state'.outTxId = Some(Head(loc["timer"].scan))
                     /\ loc'["timer"].target = "OUT_TX_CONFIRMED"
                ELSE IF SeenNotFoundOrReverted /\ ~SeenPending
                THEN /\ state'.outTxs = Some(<<>>)
                     /\ state'.retryState = Some("SC_WITHDRAWAL_CONFIRMED")
                     /\ state'.retryAt = Some(retryTime)
                     /\ pc'["timer"] = "setState"
                     /\ loc'["timer"].target = "RETRYING"
                ELSE state' = state /\ pc'["timer"] = "ret"]_vars

\* C29: the transfer to the CEX of a job with a smart-chain source was found
\* reverted with none pending: the job is persisted in RETRYING towards
\* SC_WITHDRAWAL_CONFIRMED with outTxs cleared.
C29_TransferRevertedRetrying ==
    /\ disk.state = "RETRYING"
    /\ disk.retryState = Some("SC_WITHDRAWAL_CONFIRMED")
    /\ disk.outTxs = Some(<<>>)
    /\ disk.srcToken = Some("USDC")
    /\ \E i \in DOMAIN ext : ext[i].kind = "sct" /\ ext[i].st = "bad"

\* C30: TRADE_EXECUTING outcomes: a not-found error or a trade state
\* canceled/mmp_canceled moves the job to RETRYING with
\* retryState=DEPOSIT_RECEIVED; a filled trade records orderId, price and
\* amountIn = CEX balance of dst and moves to TRADE_EXECUTED; for live or
\* partially_filled trades, and for any other error, the job stays in
\* TRADE_EXECUTING with its document unchanged.
C30_TradeExecutingOutcomes ==
    [][/\ LookupReturns("te_get") =>
            CASE StOf(loc["timer"].id) \in {"new", "bad"} ->
                    /\ state'.retryState = Some("DEPOSIT_RECEIVED")
                    /\ state'.retryAt = Some(retryTime)
                    /\ pc'["timer"] = "setState" /\ loc'["timer"].target = "RETRYING"
              [] StOf(loc["timer"].id) = "ok" ->
                    /\ state'.orderId = Some(loc["timer"].id)
                    /\ state'.price # None
                    /\ state'.state = "TRADE_EXECUTING"
                    /\ pc'["timer"] = "te_bal"
              [] OTHER ->
                    /\ state' = state /\ disk' = disk
                    /\ pc'["timer"] = "dispatch"
                    /\ loc'["timer"].from = RebalancingState.TRADE_EXECUTING
       /\ (pc["timer"] = "te_get" /\ run' = "timer" /\ faults' = faults + 1) =>
             state' = state /\ disk' = disk /\ pc'["timer"] = "ret"
       /\ (/\ pc["timer"] = "dispatch" /\ run = "timer"
           /\ loc["timer"].from = RebalancingState.TRADE_EXECUTING) =>
             state' = state /\ disk' = disk /\ pc'["timer"] = "ret"
       /\ LookupReturns("te_bal") =>
             /\ \E a \in AmountIns : state'.amountIn = Some(a)
             /\ state'.orderId = state.orderId /\ state'.price = state.price
             /\ pc'["timer"] = "setState" /\ loc'["timer"].target = "TRADE_EXECUTED"]_vars

\* C30: the order of the job was canceled, and the job is persisted in
\* RETRYING towards DEPOSIT_RECEIVED.
C30_CanceledRetrying ==
    /\ disk.state = "RETRYING"
    /\ disk.retryState = Some("DEPOSIT_RECEIVED")
    /\ Has(disk, "clientOrderId")
    /\ ext[disk.clientOrderId[1]].kind = "ord"
    /\ ext[disk.clientOrderId[1]].st = "bad"

\* C31: WITHDRAWAL_SENT outcomes per rail: for dst=BTC a missing incoming tx
\* leads to RETRYING with retryState=WITHDRAWING and one with at least 1
\* confirmation to IN_TX_CONFIRMED; for dst=BTC-LN a confirmed invoice leads
\* to IN_TX_CONFIRMED and a canceled one to RETRYING with
\* retryState=WITHDRAWING; for a smart-chain destination a success status
\* leads to IN_TX_CONFIRMED and a reverted one to RETRYING with
\* retryState=WITHDRAWING; otherwise the job stays in WITHDRAWAL_SENT.  The
\* job never is in IN_TX_CONFIRMED without its incoming transfer confirmed.
C31_WithdrawalSentOutcomes ==
    [][/\ LookupReturns("ws_get") =>
            /\ state.state = "WITHDRAWAL_SENT"
            /\ loc["timer"].id = state.inTxId[1]
            /\ loc["timer"].k = Token(state.dstToken)
            /\ CASE StOf(loc["timer"].id) = "ok" ->
                      /\ state' = state
                      /\ pc'["timer"] = "setState"
                      /\ loc'["timer"].target = "IN_TX_CONFIRMED"
                 [] \/ StOf(loc["timer"].id) = "bad"
                    \/ StOf(loc["timer"].id) = "new" /\ state.dstToken = Some("BTC") ->
                      /\ state'.retryState = Some("WITHDRAWING")
                      /\ state'.retryAt = Some(retryTime)
                      /\ pc'["timer"] = "setState"
                      /\ loc'["timer"].target = "RETRYING"
                 [] OTHER ->
                      /\ state' = state /\ disk' = disk
                      /\ pc'["timer"] = "ret"
       /\ state'.state = "IN_TX_CONFIRMED" =>
            /\ Has(state', "inTxId")
            /\ ext'[state'.inTxId[1]].kind = "in"
            /\ ext'[state'.inTxId[1]].st = "ok"]_vars

\* C31: the incoming on-chain transaction of the job's withdrawal was not
\* found, and the job is persisted in RETRYING towards WITHDRAWING.
C31_PayoutFailedRetrying ==
    /\ disk.state = "RETRYING"
    /\ disk.retryState = Some("WITHDRAWING")
    /\ disk.dstToken = Some("BTC")
    /\ Has(disk, "inTxId")
    /\ ext[disk.inTxId[1]].kind = "in"
    /\ ext[disk.inTxId[1]].st = "bad"

\* The timer's check is at the `if` of state S.
Handles(S) ==
    /\ pc["timer"] = "dispatch" /\ run = "timer"
    /\ Handler("timer") = S

\* C32: final leg: for dst=BTC or BTC-LN the job goes from IN_TX_CONFIRMED
\* directly to FINISHED; for a smart-chain destination it reaches FINISHED
\* only via SC_DEPOSITING and SC_DEPOSITED, after a deposit candidate is
\* observed success, and when no candidate is success, at least one is
\* not_found/reverted and none is pending it enters RETRYING with
\* retryState=IN_TX_CONFIRMED.
C32_FinalLeg ==
    [][/\ Handles("IN_TX_CONFIRMED") =>
            IF IsBtc(state.dstToken)
            THEN /\ state' = state
                 /\ pc'["timer"] = "setState" /\ loc'["timer"].target = "FINISHED"
            ELSE /\ state' = state
                 /\ pc'["timer"] \in {"sac_txs", "throw"}
       /\ ScanEnds("scd") =>
            IF Queried = "success"
            THEN /\ state'.scDepositTxId = Some(Head(loc["timer"].scan))
                 /\ pc'["timer"] = "setState"
                 /\ loc'["timer"].target = "SC_DEPOSITED"
            ELSE IF SeenNotFoundOrReverted /\ ~SeenPending
            THEN /\ state'.retryState = Some("IN_TX_CONFIRMED")
                 /\ state'.retryAt = Some(retryTime)
                 /\ pc'["timer"] = "setState"
                 /\ loc'["timer"].target = "RETRYING"
            ELSE state' = state /\ pc'["timer"] = "ret"
       /\ Handles("SC_DEPOSITED") =>
            /\ state' = state
            /\ pc'["timer"] = "setState" /\ loc'["timer"].target = "FINISHED"
       /\ (state'.state = "FINISHED" /\ state.state # "FINISHED") =>
            IF IsBtc(state.dstToken)
            THEN state.state = "IN_TX_CONFIRMED"
            ELSE /\ state.state = "SC_DEPOSITED"
                 /\ "SC_DEPOSITING" \in visited
                 /\ ext[state.scDepositTxId[1]].kind = "scd"
                 /\ ext[state.scDepositTxId[1]].st = "ok"]_vars

\* C32: the deposit of a job with a smart-chain destination was observed
\* success, and the job is persisted in FINISHED.
C32_DepositedFinished ==
    /\ disk.state = "FINISHED"
    /\ disk.dstToken = Some("USDC")
    /\ "SC_DEPOSITED" \in visited
    /\ Has(disk, "scDepositTxId")
    /\ ext[disk.scDepositTxId[1]].st = "ok"

\* C33: a deposit candidate's status is never polled before its cooldown
\* has elapsed: the execution of check that handles IN_TX_CONFIRMED and
\* broadcasts the deposit does not go on to the SC_DEPOSITING scan.
C33_NoPollBeforeCooldown ==
    \A p \in Procs :
        (pc[p] = "scan" /\ loc[p].k = "scd") =>
            /\ ~(Has(state, "cooldown") /\ state.cooldown[1] > 0)
            /\ loc[p].from # RebalancingState.IN_TX_CONFIRMED

\* C33: the execution of check that broadcast the deposit is polling the
\* candidate it has just published, within the cooldown.
C33_PolledAtOnce ==
    /\ pc["timer"] = "scan" /\ loc["timer"].k = "scd"
    /\ loc["timer"].from = RebalancingState.IN_TX_CONFIRMED
    /\ state.state = "SC_DEPOSITING"
    /\ state.cooldown = Some(cooldownTime)
    /\ ext[Head(loc["timer"].scan)].kind = "scd"
    /\ ext[Head(loc["timer"].scan)].st = "sent"

\* Process p is about to run the setState of a broadcast callback of the
\* sendAndConfirm of kind k.
CallbackSets(p, k) ==
    /\ pc[p] = "setState" /\ run = p
    /\ loc[p].cont = "sac_send_go"
    /\ loc[p].k = k /\ loc[p].target = BroadcastState(k)

\* C34: a broadcast callback never moves a job backwards: once the job is at
\* SC_WITHDRAWAL_CONFIRMED, OUT_TX_CONFIRMED or SC_DEPOSITED or later, a
\* callback of the earlier sendAndConfirm does not set it back to
\* SC_WITHDRAWING, OUT_TX or SC_DEPOSITING.
C34_CallbackNeverBackwards ==
    [][\A p \in Procs, k \in {"scw", "sct", "scd"} :
          (/\ CallbackSets(p, k)
           /\ state.state \in States
           /\ RebalancingState[state.state] >= RebalancingState[ConfirmedState(k)]) =>
              state'.state # BroadcastState(k)]_vars

\* C34: a broadcast callback has set the job back to its broadcast state
\* while the write of a later state, made by another execution of check, is
\* still in progress.
C34_SetBackByCallback ==
    \E p \in Procs, q \in Procs, k \in {"scw", "sct", "scd"} :
        /\ p # q
        /\ pc[p] = "saving" /\ loc[p].cont = "sac_send_go" /\ loc[p].k = k
        /\ state.state = BroadcastState(k)
        /\ pc[q] = "saving"
        /\ RebalancingState[loc[q].target] >= RebalancingState[ConfirmedState(k)]

\* The states from OUT_TX_CONFIRMED on.
Advanced ==
    {S \in States : RebalancingState[S] >= RebalancingState.OUT_TX_CONFIRMED}

\* C35: a job that has reached OUT_TX_CONFIRMED or a later state never enters
\* IDLE; the late failure result of an outgoing payment or broadcast call
\* does not reset an already-advanced job, or a newer job, to IDLE.
C35_AdvancedNeverIdle ==
    [][/\ (state.state \in Advanced \/ visited \cap Advanced # {}) =>
             (state'.state = "IDLE" => state.state = "IDLE")
       /\ \A p \in Procs :
             (/\ pc[p] = "setState" /\ run = p /\ loc[p].target = "IDLE"
              /\ loc[p].id \in DOMAIN ext
              /\ ext[loc[p].id].job # state.job) =>
                 state'.state # "IDLE"]_vars

\* C35: a job persisted in OUT_TX_CONFIRMED, its outgoing transaction
\* confirmed, is persisted in IDLE.
C35_ConfirmedJobIdle ==
    /\ state.state = "IDLE" /\ disk.state = "IDLE"
    /\ "OUT_TX_CONFIRMED" \in visited
    /\ Has(disk, "outTxId")
    /\ ext[disk.outTxId[1]].st = "ok"
    /\ ext[disk.outTxId[1]].job = disk.job

\* C36: the net amount amountIn - withdrawalFee is never negative whenever
\* the CEX withdrawal is submitted, the Lightning invoice is created or the
\* deposit transactions are built, for every amountIn and fee, including the
\* BTC-LN fee of 1000 + amountIn/1000.
C36_NetAmountNotNegative ==
    \A p \in Procs :
        /\ pc[p] = "ftd_wd" => loc[p].amount >= 0
        /\ (pc[p] = "ftd_addr" /\ state.dstToken = Some("BTC-LN")) =>
              state.amountIn[1] - state.withdrawalFee[1] >= 0
        /\ (pc[p] = "sac_txs" /\ loc[p].k = "scd") => loc[p].amount >= 0

\* C36: lncli.createInvoice is awaited for a job that received 1000 sats,
\* less than its BTC-LN withdrawal fee of 1001.
C36_InvoiceBelowZero ==
    /\ pc["timer"] = "ftd_addr"
    /\ state.dstToken = Some("BTC-LN")
    /\ state.amountIn = Some(1000)
    /\ state.withdrawalFee = Some(1001)

\* The monitor's run being examined decides in this step.
PoolsDecided ==
    /\ wire.at = "pools"
    /\ pc["mon1"] = "m_bal" /\ pc'["mon1"] # "m_bal"

\* C37: for a BTC-heavy seed with rebalanceAmountPPM <= 10^6, amountOut is
\* greater than 0 and at most the on-chain BTC balance read in the same run.
C37_BtcSeedWithinBalance ==
    [][(/\ PoolsDecided
        /\ wire.rebalanceAmountPPM <= 1000000
        /\ pc'["mon1"] = "setState"
        /\ state'.srcToken = Some("BTC")) =>
          /\ 0 < state'.amountOut[1]
          /\ state'.amountOut[1] <= wire.balanceOnchain]_vars

\* C37: a run that found 1 sat on-chain and no USDC, half of the difference
\* to be moved, has seeded BTC -> USDC for 0 sats, and the job is saved as
\* TRIGGERED.
C37_SeededZero ==
    /\ wire.at = "pools"
    /\ wire.balanceUSDCinBTC = 0 /\ wire.balanceOnchain = 1
    /\ wire.rebalanceAmountPPM = 500000
    /\ disk.state = "TRIGGERED"
    /\ state.state = "TRIGGERED"
    /\ state.srcToken = Some("BTC")
    /\ state.amountOut = Some(0)

\* C38: if writing the document fails inside setState, the in-memory job
\* state equals the last persisted state afterwards.
C38_FailedWriteKeepsState ==
    [][(pc["timer"] = "saving" /\ pc'["timer"] = "throw") =>
          state'.state = disk.state]_vars

\* C38: the write of WITHDRAWING failed and left the file as it was; the
\* error has reached func(), and the job in memory is in WITHDRAWING while
\* the document says FUNDS_TRANSFERED.
C38_MemoryAheadOfDocument ==
    /\ pc["timer"] = "t_wait" /\ run = NoProc
    /\ faults = 1
    /\ state.state = "WITHDRAWING"
    /\ disk.state = "FUNDS_TRANSFERED"
    /\ ~Has(disk, "withdrawalId") /\ Has(state, "withdrawalId")

\* C39: an onBeforeTxReplace callback that fires while there is no job
\* (no document was loaded, or the state was cleared after FINISHED) is a
\* no-op and raises no error.
C39_ReplaceWithoutJob ==
    [][\A old \in 1..MaxExt :
          (Replaces(old) /\ state.state \in {"undefined", "null"}) =>
              /\ state' = state /\ disk' = disk
              /\ ~TxReplaceThrows]_vars

\* C39: the library has replaced a pending transaction while this.state was
\* unassigned, no document having been loaded and no job seeded.
C39_ReplacedWithoutDocument ==
    /\ state.state = "undefined"
    /\ disk = NoFile /\ jobs = 0
    /\ \E old \in DOMAIN ext : ext[old].st = "replaced"

\* C40: a BalanceMonitor run in which sumOnChainAndUSDC is 0 completes
\* without raising an error and seeds no job.
C40_EmptyPoolsRunCompletes ==
    [][(PoolsDecided /\ wire.balanceUSDCinBTC + wire.balanceOnchain = 0) =>
          /\ state' = state /\ disk' = disk
          /\ pc'["mon1"] = "m_off"]_vars

\* C40: the run that found nothing on either side is ending by an error
\* raised in the callback, with no job seeded.
C40_EmptyPoolsRunThrows ==
    /\ wire.at = "pools"
    /\ wire.balanceUSDCinBTC + wire.balanceOnchain = 0
    /\ pc["mon1"] = "throw" /\ run = "mon1"
    /\ stk["mon1"] = <<>>
    /\ state.state = "undefined" /\ jobs = 0

=============================================================================
